---- MODULE Spec2Model ----
(***************************************************************************)
(* Loop-invariant code motion over SSA functions                           *)
(* (compiler/noirc_evaluator/src/ssa/opt/loop_invariant.rs).               *)
(*                                                                         *)
(* A function is a map from block ids to blocks; a block holds its         *)
(* parameters, its instructions in order and its terminator.  An operand   *)
(* is <<"v", id>> (a value id) or <<"c", n>> (a numeric constant, kept as  *)
(* the bit pattern of the function's numeric type).  The pass is the       *)
(* state machine below: one step per loop popped from yet_to_unroll, per   *)
(* loop block visited, per instruction re-inserted, and one for the final  *)
(* re-insertion of every block.                                            *)
(***************************************************************************)
EXTENDS Integers, Sequences, FiniteSets, TLC

\* ------------------------------------------------------------------ bounds
\* Loop bounds of the input functions are drawn from 0..MaxBound.
MaxBound == 4
\* Constant operands of the strengthened arithmetic are drawn from 1..MaxConst.
MaxConst == 2

\* ------------------------------------------------------------ IR: operands
\* Const(n) is a constant of the function's numeric type, ConstU1(n) a u1
\* constant: constants are values of the data-flow graph, one per (value, type).
Const(n) == <<"c", n>>
ConstU1(n) == <<"b", n>>
Val(i) == <<"v", i>>
IsConst(o) == o[1] \in {"c", "b"}
IsVal(o) == o[1] = "v"

\* The numeric types of the input functions (u8 and i8).
U8 == [bits |-> 8, signed |-> FALSE]
I8 == [bits |-> 8, signed |-> TRUE]

RECURSIVE Pow2(_)
Pow2(n) == IF n = 0 THEN 1 ELSE 2 * Pow2(n - 1)

\* ------------------------------------------------------- IR: instructions
Ins(op, args, res, id, imm) ==
    [op |-> op, args |-> args, res |-> res, id |-> id, imm |-> imm]

Jmp(b, args) == [kind |-> "jmp", args |-> args, dests |-> <<b>>]
JmpIf(c, t, e) == [kind |-> "jmpif", args |-> <<c>>, dests |-> <<t, e>>]
Return == [kind |-> "return", args |-> <<>>, dests |-> <<>>]
ReturnOf(args) == [kind |-> "return", args |-> args, dests |-> <<>>]
Block(params, instrs, term) == [params |-> params, instrs |-> instrs, term |-> term]

CheckedOps == {"add", "sub", "mul"}
UncheckedOps == {"uadd", "usub", "umul"}
BinaryOps == CheckedOps \cup UncheckedOps \cup {"div", "mod", "eq", "lt"}
ConstrainOps == {"constrain", "constrain_ne", "range_check"}
EffectOps == {"allocate", "load", "store", "inc_rc", "dec_rc", "call"}

\* BinaryOp::is_unchecked / BinaryOp::into_unchecked
is_unchecked(op) == op \notin CheckedOps
into_unchecked(op) ==
    CASE op = "add" -> "uadd"
      [] op = "sub" -> "usub"
      [] op = "mul" -> "umul"
      [] OTHER -> op
BaseOp(op) ==
    CASE op = "uadd" -> "add"
      [] op = "usub" -> "sub"
      [] op = "umul" -> "mul"
      [] OTHER -> op

\* ------------------------------------------------------------------- CFG
BlockIds(p) == DOMAIN p.blocks
Succs(p, b) == {p.blocks[b].term.dests[i] : i \in DOMAIN p.blocks[b].term.dests}
Preds(p, b) == {x \in BlockIds(p) : b \in Succs(p, x)}

RECURSIVE BackClosure(_, _, _)
BackClosure(p, header, S) ==
    LET N == S \cup {x \in BlockIds(p) : x # header /\ \E y \in S : y \in Succs(p, x)}
    IN IF N = S THEN S ELSE BackClosure(p, header, N)

\* Loop::find_blocks_in_loop(header, back_edge_start, cfg): the header plus
\* every block reaching back_edge_start backwards without crossing the header.
find_blocks_in_loop(p, header, start) ==
    IF start = header THEN {header} ELSE {header} \cup BackClosure(p, header, {start})

\* Blocks reachable from b without entering `avoid`.
RECURSIVE FwdClosure(_, _, _)
FwdClosure(p, avoid, S) ==
    LET N == S \cup {y \in BlockIds(p) : y # avoid /\ \E x \in S : y \in Succs(p, x)}
    IN IF N = S THEN S ELSE FwdClosure(p, avoid, N)

ExitBlocks(p) == {b \in BlockIds(p) : p.blocks[b].term.kind = "return"}

\* a post-dominates b: every path from b to a return passes through a.
PostDominates(p, a, b) ==
    a = b \/ FwdClosure(p, a, {b}) \cap ExitBlocks(p) = {}

\* (combining a map with the empty one makes it a table computed once)
EmptyTree == [b \in {} |-> {}]

\* the post-dominator tree of the reversed CFG: block -> its post-dominators
PostDominators(p) ==
    [b \in BlockIds(p) |->
        UNION {IF PostDominates(p, a, b) THEN {a} ELSE {} : a \in BlockIds(p)}]
    @@ EmptyTree

\* the immediate post-dominator of b: its closest strict post-dominator (-1: none)
immediate_dominator(pdoms, b) ==
    LET strict == pdoms[b] \ {b}
    IN IF strict = {} THEN 0 - 1
       ELSE CHOOSE a \in strict : strict \subseteq pdoms[a]

RECURSIVE FrontierRunnersToIdom(_, _, _, _)
\* a variant of FrontierRunners whose walk stops only at the immediate
\* post-dominator of x
FrontierRunnersToIdom(pdoms, idom, x, runner) ==
    IF idom[x] = 0 - 1 \/ runner = idom[x]
    THEN {}
    ELSE {runner} \cup
         (IF idom[runner] = 0 - 1 THEN {}
          ELSE FrontierRunnersToIdom(pdoms, idom, x, idom[runner]))

RECURSIVE FrontierRunners(_, _, _, _)
\* the walk of compute_dominance_frontiers for block x from one of its
\* successors up the post-dominator tree: it stops at the immediate
\* post-dominator of x and at a runner that x post-dominates
FrontierRunners(pdoms, idom, x, runner) ==
    IF idom[x] = 0 - 1 \/ runner = idom[x] \/ x \in pdoms[runner]
    THEN {}
    ELSE {runner} \cup
         (IF idom[runner] = 0 - 1 THEN {}
          ELSE FrontierRunners(pdoms, idom, x, idom[runner]))

\* compute_dominance_frontiers on the reversed CFG: block -> the blocks x with
\* several successors whose walk passes through it; a block that no walk
\* passes through gets no entry
compute_dominance_frontiers(p) ==
    LET pdoms == PostDominators(p)
        idom == [b \in BlockIds(p) |-> immediate_dominator(pdoms, b)] @@ EmptyTree
        runners == [x \in BlockIds(p) |->
                        UNION {FrontierRunners(pdoms, idom, x, s) : s \in Succs(p, x)}]
                   @@ EmptyTree
        frontier == [block \in BlockIds(p) |->
                        {x \in BlockIds(p) : Cardinality(Succs(p, x)) > 1
                                              /\ block \in runners[x]}]
                    @@ EmptyTree
    IN [block \in {b \in BlockIds(p) : frontier[b] # {}} |-> frontier[block]] @@ EmptyTree

\* ------------------------------------------------------- input functions
\* Value ids of the input functions: v1, v2 are the function's parameters,
\* v3 an array built in the entry block, v4 the branch condition computed in
\* the entry block, v5/v7 the induction variables of the outer/inner loop,
\* v6/v8 the loop conditions, v9/v10 the increments; the instructions of
\* the slots of a shape take their ids from 20, 30 and 40 on.
X == Val(1)
Y == Val(2)
Arr == Val(3)
Cond == Val(4)

MakeArr(len) == Ins("make_array", [i \in 1..len |-> Const(2)], 3, 3, len)
CondIns == Ins("eq", <<X, Const(2)>>, 4, 4, 0)
HeaderIns(iv, up) == Ins("lt", <<Val(iv), up>>, iv + 1, iv + 1, 0)
IncrIns(iv, r) == Ins("uadd", <<Val(iv), Const(1)>>, r, r, 0)

\* v = mul x, y ; constrain v == 6
SnipSimple(b) ==
    << Ins("mul", <<X, Y>>, b + 1, b + 1, 0),
       Ins("constrain", <<Val(b + 1), Const(6)>>, 0, b + 2, 0) >>
\* v = mul x, y ; w = mul v, x ; constrain w == 12
SnipChain(b) ==
    << Ins("mul", <<X, Y>>, b + 1, b + 1, 0),
       Ins("mul", <<Val(b + 1), X>>, b + 2, b + 2, 0),
       Ins("constrain", <<Val(b + 2), Const(12)>>, 0, b + 3, 0) >>
\* one assertion-like instruction on a value defined before the loop
SnipAssert(b, op) ==
    << Ins(op, IF op = "range_check" THEN <<X>> ELSE <<X, Const(2)>>, 0, b + 1,
           IF op = "range_check" THEN 2 ELSE 0) >>
\* v = op l, r
SnipBin(b, op, l, r) == << Ins(op, <<l, r>>, b + 1, b + 1, 0) >>
\* v = op l, r ; constrain v == 5
SnipBinAssert(b, op, l, r) ==
    << Ins(op, <<l, r>>, b + 1, b + 1, 0),
       Ins("constrain", <<Val(b + 1), Const(5)>>, 0, b + 2, 0) >>
\* v = array_get arr, index idx ; constrain v == 2
SnipArrayGet(b, idx) ==
    << Ins("array_get", <<Arr, idx>>, b + 1, b + 1, 0),
       Ins("constrain", <<Val(b + 1), Const(2)>>, 0, b + 2, 0) >>
\* v = make_array [x, y] ; w = array_get v, index u8 0
SnipMakeArray(b) ==
    << Ins("make_array", <<X, Y>>, b + 1, b + 1, 2),
       Ins("array_get", <<Val(b + 1), Const(0)>>, b + 2, b + 2, 0) >>
\* v = make_array [x, e] ; w = array_get v, index u8 1
SnipMakeArrayOf(b, e) ==
    << Ins("make_array", <<X, e>>, b + 1, b + 1, 2),
       Ins("array_get", <<Val(b + 1), Const(1)>>, b + 2, b + 2, 0) >>
\* a = allocate ; store x at a ; v = load a ; call f(x)
SnipEffects(b) ==
    << Ins("allocate", <<>>, b + 1, b + 1, 0),
       Ins("store", <<Val(b + 1), X>>, 0, b + 2, 0),
       Ins("load", <<Val(b + 1)>>, b + 3, b + 3, 0),
       Ins("call", <<X>>, 0, b + 4, 0) >>

\* before the loop: a = allocate ; store x at a
EffectsEntry ==
    << Ins("allocate", <<>>, 11, 11, 0),
       Ins("store", <<Val(11), X>>, 0, 12, 0) >>
\* v = load a ; store y at a ; call f(x) ; inc_rc arr ; dec_rc arr, every
\* operand being defined before the loop
SnipOutsideEffects(b) ==
    << Ins("load", <<Val(11)>>, b + 1, b + 1, 0),
       Ins("store", <<Val(11), Y>>, 0, b + 2, 0),
       Ins("call", <<X>>, 0, b + 3, 0),
       Ins("inc_rc", <<Arr>>, 0, b + 4, 0),
       Ins("dec_rc", <<Arr>>, 0, b + 5, 0) >>

Func(typ, brillig, blocks, loops) ==
    [typ |-> typ, brillig |-> brillig, blocks |-> blocks, loops |-> loops]
Loop(header, backEdge) == [header |-> header, backEdge |-> backEdge]

\* b0 -> b1(header) -> b3(body) -> b1 ; b1 -> b2(exit)
ShapeSimple(typ, brillig, entry, lo, up, body) ==
    Func(typ, brillig,
         [b \in 0..3 |->
            CASE b = 0 -> Block(<<1, 2>>, entry, Jmp(1, <<lo>>))
              [] b = 1 -> Block(<<5>>, <<HeaderIns(5, up)>>, JmpIf(Val(6), 3, 2))
              [] b = 2 -> Block(<<>>, <<>>, Return)
              [] b = 3 -> Block(<<>>, body \o <<IncrIns(5, 9)>>, Jmp(1, <<Val(9)>>))],
         << Loop(1, 3) >>)

\* b0 -> b1(header) -> b2(cond) -> {b4(then), b5(end)} ; b4 -> b5 -> b1 ; b1 -> b3(exit)
ShapeDiamond(typ, brillig, entry, lo, up, inCond, inThen, inEnd) ==
    Func(typ, brillig,
         [b \in 0..5 |->
            CASE b = 0 -> Block(<<1, 2>>, <<CondIns>> \o entry, Jmp(1, <<lo>>))
              [] b = 1 -> Block(<<5>>, <<HeaderIns(5, up)>>, JmpIf(Val(6), 2, 3))
              [] b = 2 -> Block(<<>>, inCond, JmpIf(Cond, 4, 5))
              [] b = 3 -> Block(<<>>, <<>>, ReturnOf(<<Cond>>))
              [] b = 4 -> Block(<<>>, inThen, Jmp(5, <<>>))
              [] b = 5 -> Block(<<>>, inEnd \o <<IncrIns(5, 9)>>, Jmp(1, <<Val(9)>>))],
         << Loop(1, 5) >>)

\* a loop left from its body as well: b1(header) -> b3(body) -> {b2(exit), b4(latch)}
ShapeBreak(typ, up, inBody, inLatch) ==
    Func(typ, TRUE,
         [b \in 0..4 |->
            CASE b = 0 -> Block(<<1, 2>>, <<CondIns>>, Jmp(1, <<Const(0)>>))
              [] b = 1 -> Block(<<5>>, <<HeaderIns(5, up)>>, JmpIf(Val(6), 3, 2))
              [] b = 2 -> Block(<<>>, <<>>, Return)
              [] b = 3 -> Block(<<>>, inBody, JmpIf(Cond, 2, 4))
              [] b = 4 -> Block(<<>>, inLatch \o <<IncrIns(5, 9)>>, Jmp(1, <<Val(9)>>))],
         << Loop(1, 4) >>)

\* an inner loop b5, b6 entered under a branch of the outer loop's body:
\* b1(header) -> b3(cond) -> {b4(inner pre-header), b7(latch)} ; b5 -> b7
ShapeGuardedInner(typ, up1, up2, inPre, inBody) ==
    Func(typ, TRUE,
         [b \in 0..7 |->
            CASE b = 0 -> Block(<<1, 2>>, <<CondIns>>, Jmp(1, <<Const(0)>>))
              [] b = 1 -> Block(<<5>>, <<HeaderIns(5, up1)>>, JmpIf(Val(6), 3, 2))
              [] b = 2 -> Block(<<>>, <<>>, Return)
              [] b = 3 -> Block(<<>>, <<>>, JmpIf(Cond, 4, 7))
              [] b = 4 -> Block(<<>>, inPre, Jmp(5, <<Const(0)>>))
              [] b = 5 -> Block(<<7>>, <<HeaderIns(7, up2)>>, JmpIf(Val(8), 6, 7))
              [] b = 6 -> Block(<<>>, inBody \o <<IncrIns(7, 10)>>, Jmp(5, <<Val(10)>>))
              [] b = 7 -> Block(<<>>, <<IncrIns(5, 9)>>, Jmp(1, <<Val(9)>>))],
         << Loop(5, 6), Loop(1, 7) >>)

\* outer loop b1..b6 around the inner loop b4, b6 with pre-header b3
ShapeNested(typ, brillig, entry, lo1, up1, lo2, up2, inPre, inBody) ==
    Func(typ, brillig,
         [b \in 0..6 |->
            CASE b = 0 -> Block(<<1, 2>>, entry, Jmp(1, <<lo1>>))
              [] b = 1 -> Block(<<5>>, <<HeaderIns(5, up1)>>, JmpIf(Val(6), 3, 2))
              [] b = 2 -> Block(<<>>, <<>>, Return)
              [] b = 3 -> Block(<<>>, inPre, Jmp(4, <<lo2>>))
              [] b = 4 -> Block(<<7>>, <<HeaderIns(7, up2)>>, JmpIf(Val(8), 6, 5))
              [] b = 5 -> Block(<<>>, <<IncrIns(5, 9)>>, Jmp(1, <<Val(9)>>))
              [] b = 6 -> Block(<<>>, inBody \o <<IncrIns(7, 10)>>, Jmp(4, <<Val(10)>>))],
         << Loop(4, 6), Loop(1, 5) >>)

\* as ShapeNested, the inner body being a diamond: b5(cond) -> {b7(then), b8(end)}
ShapeNestedDiamond(typ, brillig, entry, lo1, up1, lo2, up2, inThen, inEnd) ==
    Func(typ, brillig,
         [b \in 0..8 |->
            CASE b = 0 -> Block(<<1, 2>>, <<CondIns>> \o entry, Jmp(1, <<lo1>>))
              [] b = 1 -> Block(<<5>>, <<HeaderIns(5, up1)>>, JmpIf(Val(6), 2, 3))
              [] b = 2 -> Block(<<>>, <<>>, Jmp(4, <<lo2>>))
              [] b = 3 -> Block(<<>>, <<>>, Return)
              [] b = 4 -> Block(<<7>>, <<HeaderIns(7, up2)>>, JmpIf(Val(8), 5, 6))
              [] b = 5 -> Block(<<>>, <<>>, JmpIf(Cond, 7, 8))
              [] b = 6 -> Block(<<>>, <<IncrIns(5, 9)>>, Jmp(1, <<Val(9)>>))
              [] b = 7 -> Block(<<>>, inThen, Jmp(8, <<>>))
              [] b = 8 -> Block(<<>>, inEnd \o <<IncrIns(7, 10)>>, Jmp(4, <<Val(10)>>))],
         << Loop(4, 8), Loop(1, 6) >>)

\* two loops in sequence, the first with a conditional body: b1 loop_1,
\* b2 loop_1_cond, b3 loop_1_exit (the pre-header of loop_2), b4 loop_1_body,
\* b5 loop_1_end, b6 loop_2, b7 loop_2_body, b8 exit
ShapeSiblings(typ, brillig, up1, up2, inThen, body2) ==
    Func(typ, brillig,
         [b \in 0..8 |->
            CASE b = 0 -> Block(<<1, 2>>, <<CondIns>>, Jmp(1, <<Const(0)>>))
              [] b = 1 -> Block(<<5>>, <<HeaderIns(5, up1)>>, JmpIf(Val(6), 2, 3))
              [] b = 2 -> Block(<<>>, <<>>, JmpIf(Cond, 4, 5))
              [] b = 3 -> Block(<<>>, <<>>, Jmp(6, <<Const(0)>>))
              [] b = 4 -> Block(<<>>, inThen, Jmp(5, <<>>))
              [] b = 5 -> Block(<<>>, <<IncrIns(5, 9)>>, Jmp(1, <<Val(9)>>))
              [] b = 6 -> Block(<<7>>, <<HeaderIns(7, up2)>>, JmpIf(Val(8), 7, 8))
              [] b = 7 -> Block(<<>>, body2 \o <<IncrIns(7, 10)>>, Jmp(6, <<Val(10)>>))
              [] b = 8 -> Block(<<>>, <<>>, Return)],
         << Loop(6, 7), Loop(1, 5) >>)

\* two loops in sequence with an array built in the entry block; the second
\* loop is left from its body b7 as well, and its latch b9 lies behind that
\* branch
ShapeSiblingsBreak(typ, len, up1, up2, inLatch) ==
    Func(typ, TRUE,
         [b \in 0..9 |->
            CASE b = 0 -> Block(<<1, 2>>, <<MakeArr(len), CondIns>>, Jmp(1, <<Const(0)>>))
              [] b = 1 -> Block(<<5>>, <<HeaderIns(5, up1)>>, JmpIf(Val(6), 2, 3))
              [] b = 2 -> Block(<<>>, <<>>, Jmp(4, <<>>))
              [] b = 3 -> Block(<<>>, <<>>, Jmp(6, <<Const(0)>>))
              [] b = 4 -> Block(<<>>, <<>>, Jmp(5, <<>>))
              [] b = 5 -> Block(<<>>, <<IncrIns(5, 9)>>, Jmp(1, <<Val(9)>>))
              [] b = 6 -> Block(<<7>>, <<HeaderIns(7, up2)>>, JmpIf(Val(8), 7, 8))
              [] b = 7 -> Block(<<>>, <<>>, JmpIf(Cond, 8, 9))
              [] b = 8 -> Block(<<>>, <<>>, Return)
              [] b = 9 -> Block(<<>>, inLatch \o <<IncrIns(7, 10)>>, Jmp(6, <<Val(10)>>))],
         << Loop(6, 9), Loop(1, 5) >>)

\* a loop without a pre-header (header b3) followed by a loop with one
\* (header b6, pre-header b4); `first` is the index of the loop popped first
ShapeSkippedSibling(typ, up1, up2, body1, body2, first) ==
    Func(typ, TRUE,
         [b \in 0..8 |->
            CASE b = 0 -> Block(<<1, 2>>, <<CondIns>>, JmpIf(Cond, 1, 2))
              [] b = 1 -> Block(<<>>, <<>>, Jmp(3, <<Const(0)>>))
              [] b = 2 -> Block(<<>>, <<>>, Jmp(3, <<Const(1)>>))
              [] b = 3 -> Block(<<5>>, <<HeaderIns(5, up1)>>, JmpIf(Val(6), 5, 4))
              [] b = 4 -> Block(<<>>, <<>>, Jmp(6, <<Const(0)>>))
              [] b = 5 -> Block(<<>>, body1 \o <<IncrIns(5, 9)>>, Jmp(3, <<Val(9)>>))
              [] b = 6 -> Block(<<7>>, <<HeaderIns(7, up2)>>, JmpIf(Val(8), 8, 7))
              [] b = 7 -> Block(<<>>, <<>>, Return)
              [] b = 8 -> Block(<<>>, body2 \o <<IncrIns(7, 10)>>, Jmp(6, <<Val(10)>>))],
         IF first = 1 THEN << Loop(6, 8), Loop(3, 5) >>
                      ELSE << Loop(3, 5), Loop(6, 8) >>)

\* a loop without a pre-header (header b5, entered from b3 and b4) inside a
\* loop with one (header b1, pre-header b0)
ShapeSkippedInner(typ, up1, up2, body) ==
    Func(typ, TRUE,
         [b \in 0..8 |->
            CASE b = 0 -> Block(<<1, 2>>, <<CondIns>>, Jmp(1, <<Const(0)>>))
              [] b = 1 -> Block(<<5>>, <<HeaderIns(5, up1)>>, JmpIf(Val(6), 2, 8))
              [] b = 2 -> Block(<<>>, <<>>, JmpIf(Cond, 3, 4))
              [] b = 3 -> Block(<<>>, <<>>, Jmp(5, <<Const(0)>>))
              [] b = 4 -> Block(<<>>, <<>>, Jmp(5, <<Const(1)>>))
              [] b = 5 -> Block(<<7>>, <<HeaderIns(7, up2)>>, JmpIf(Val(8), 7, 6))
              [] b = 6 -> Block(<<>>, <<IncrIns(5, 9)>>, Jmp(1, <<Val(9)>>))
              [] b = 7 -> Block(<<>>, body \o <<IncrIns(7, 10)>>, Jmp(5, <<Val(10)>>))
              [] b = 8 -> Block(<<>>, <<>>, Return)],
         << Loop(5, 7), Loop(1, 6) >>)

\* a loop whose exit block reads the header's comparison and returns it
ShapeUseAfterLoop(typ, lo, up, body) ==
    Func(typ, TRUE,
         [b \in 0..3 |->
            CASE b = 0 -> Block(<<1, 2>>, <<>>, Jmp(1, <<lo>>))
              [] b = 1 -> Block(<<5>>, <<HeaderIns(5, up)>>, JmpIf(Val(6), 3, 2))
              [] b = 2 -> Block(<<>>, <<Ins("eq", <<Val(6), ConstU1(0)>>, 11, 11, 0)>>,
                                ReturnOf(<<Val(11), Val(6)>>))
              [] b = 3 -> Block(<<>>, body \o <<IncrIns(5, 9)>>, Jmp(1, <<Val(9)>>))],
         << Loop(1, 3) >>)

\* as ShapeNested, the outer latch b5 reading the inner header's comparison
\* and the exit block returning the outer header's
ShapeNestedUse(typ, up1, up2, inBody) ==
    Func(typ, TRUE,
         [b \in 0..6 |->
            CASE b = 0 -> Block(<<1, 2>>, <<>>, Jmp(1, <<Const(0)>>))
              [] b = 1 -> Block(<<5>>, <<HeaderIns(5, up1)>>, JmpIf(Val(6), 3, 2))
              [] b = 2 -> Block(<<>>, <<>>, ReturnOf(<<Val(6)>>))
              [] b = 3 -> Block(<<>>, <<>>, Jmp(4, <<Const(0)>>))
              [] b = 4 -> Block(<<7>>, <<HeaderIns(7, up2)>>, JmpIf(Val(8), 6, 5))
              [] b = 5 -> Block(<<>>, <<Ins("eq", <<Val(8), ConstU1(0)>>, 11, 11, 0),
                                        Ins("constrain", <<Val(11), ConstU1(1)>>, 0, 12, 0),
                                        IncrIns(5, 9)>>, Jmp(1, <<Val(9)>>))
              [] b = 6 -> Block(<<>>, inBody \o <<IncrIns(7, 10)>>, Jmp(4, <<Val(10)>>))],
         << Loop(4, 6), Loop(1, 5) >>)

\* a loop whose body is two blocks in a row, the first with the higher id:
\* b1 -> b4 -> b3 -> b1, so that the blocks are visited b1, b3, b4
ShapeTwoBodies(typ, lo, up, inFirst, inSecond) ==
    Func(typ, TRUE,
         [b \in 0..4 |->
            CASE b = 0 -> Block(<<1, 2>>, <<CondIns>>, Jmp(1, <<lo>>))
              [] b = 1 -> Block(<<5>>, <<HeaderIns(5, up)>>, JmpIf(Val(6), 4, 2))
              [] b = 2 -> Block(<<>>, <<>>, Return)
              [] b = 3 -> Block(<<>>, inSecond \o <<IncrIns(5, 9)>>, Jmp(1, <<Val(9)>>))
              [] b = 4 -> Block(<<>>, inFirst, Jmp(3, <<>>))],
         << Loop(1, 3) >>)

\* three loops in one another: headers b1, b4, b7, pre-headers b0, b3, b6,
\* latches b5, b8 and the innermost body b9
ShapeTriple(typ, entry, up1, up2, up3, body) ==
    Func(typ, TRUE,
         [b \in 0..9 |->
            CASE b = 0 -> Block(<<1, 2>>, entry, Jmp(1, <<Const(0)>>))
              [] b = 1 -> Block(<<5>>, <<HeaderIns(5, up1)>>, JmpIf(Val(6), 3, 2))
              [] b = 2 -> Block(<<>>, <<>>, Return)
              [] b = 3 -> Block(<<>>, <<>>, Jmp(4, <<Const(0)>>))
              [] b = 4 -> Block(<<7>>, <<HeaderIns(7, up2)>>, JmpIf(Val(8), 6, 5))
              [] b = 5 -> Block(<<>>, <<IncrIns(5, 9)>>, Jmp(1, <<Val(9)>>))
              [] b = 6 -> Block(<<>>, <<>>, Jmp(7, <<Const(0)>>))
              [] b = 7 -> Block(<<13>>, <<HeaderIns(13, up3)>>, JmpIf(Val(14), 9, 8))
              [] b = 8 -> Block(<<>>, <<IncrIns(7, 10)>>, Jmp(4, <<Val(10)>>))
              [] b = 9 -> Block(<<>>, body \o <<IncrIns(13, 15)>>, Jmp(7, <<Val(15)>>))],
         << Loop(7, 9), Loop(4, 8), Loop(1, 5) >>)

\* a loop whose header b3 is entered from two blocks outside the loop
ShapeNoPreHeader(typ, entry, up, body) ==
    Func(typ, TRUE,
         [b \in 0..5 |->
            CASE b = 0 -> Block(<<1, 2>>, <<CondIns>> \o entry, JmpIf(Cond, 1, 2))
              [] b = 1 -> Block(<<>>, <<>>, Jmp(3, <<Const(0)>>))
              [] b = 2 -> Block(<<>>, <<>>, Jmp(3, <<Const(1)>>))
              [] b = 3 -> Block(<<5>>, <<HeaderIns(5, up)>>, JmpIf(Val(6), 5, 4))
              [] b = 4 -> Block(<<>>, <<>>, Return)
              [] b = 5 -> Block(<<>>, body \o <<IncrIns(5, 9)>>, Jmp(3, <<Val(9)>>))],
         << Loop(3, 5) >>)

\* ------------------------------------------------------------ pass state
VARIABLES
    prog,                \* the function the current run of the pass was given
    blocks,              \* inserter.function: block id -> block, as rewritten so far
    values,              \* inserter.values: old value id -> operand replacing it
    nextId,              \* next fresh value id of the data-flow graph
    arrLen,              \* array-typed value id -> length of its type
    yet_to_unroll,       \* indices into prog.loops, popped from the end
    pc,                  \* "pop", "block", "instr" or "done"
    curLoop,             \* index of the loop being processed (0: none yet)
    blockQueue,          \* blocks of the current loop still to visit, ascending
    curBlock,            \* block whose instructions are being re-inserted
    instrQueue,          \* instructions taken out of curBlock, still to re-insert
    defined_in_loop,     \* operands defined in the loop being processed
    loop_invariants,     \* operands already hoisted out of it
    current_induction_variables,   \* value id -> <<lower, upper>>, current loop
    outer_induction_variables,     \* value id -> <<lower, upper>>, earlier loops
    current_pre_header,  \* pre-header of the current loop (-1: None)
    current_block_control_dependent,
    post_dom_frontiers,  \* block -> the blocks it is control-dependent on
    run,                 \* 1 in the first run of the pass, 2 in a run on its output
    last                 \* what the last instruction step did (history)

vars == << prog, blocks, values, nextId, arrLen, yet_to_unroll, pc, curLoop,
           blockQueue, curBlock, instrQueue, defined_in_loop, loop_invariants,
           current_induction_variables, outer_induction_variables,
           current_pre_header, current_block_control_dependent,
           post_dom_frontiers, run, last >>

EmptyMap == [x \in {} |-> 0]
Put(map, k, v) == (k :> v) @@ map

RECURSIVE SeqOfSet(_)
\* the elements of a set of integers, ascending
SeqOfSet(S) ==
    IF S = {} THEN <<>>
    ELSE LET m == CHOOSE x \in S : \A y \in S : x <= y
         IN <<m>> \o SeqOfSet(S \ {m})

Range(f) == {f[i] : i \in DOMAIN f}

LoopBlocks(p, loop) == find_blocks_in_loop(p, loop.header, loop.backEdge)

\* ------------------------------------------------- the rewrite engine
RECURSIVE resolve(_, _)
\* FunctionInserter::resolve: follow the substitution map to its end
resolve(vals, o) ==
    IF IsVal(o) /\ o[2] \in DOMAIN vals THEN resolve(vals, vals[o[2]]) ELSE o

\* FunctionInserter::map_instruction: the instruction with its operands resolved
map_instruction(vals, ins) ==
    [ins EXCEPT !.args = [i \in DOMAIN ins.args |-> resolve(vals, ins.args[i])]]

\* What inserting an instruction simplifies it to: an unsigned `lt v, 0` is the
\* constant u1 0 and an unsigned `lt v, 1` is `eq v, 0`.
SimplifiesToConst(typ, ins) ==
    ins.op = "lt" /\ ~typ.signed /\ ins.args[2] = Const(0)
Simplified(typ, ins) ==
    IF ins.op = "lt" /\ ~typ.signed /\ ins.args[2] = Const(1)
    THEN [ins EXCEPT !.op = "eq", !.args = <<ins.args[1], Const(0)>>]
    ELSE ins

\* a variant of push_instruction that inserts at the head of the block
push_instruction_at_head(m, typ, ins, block) ==
    LET mapped == map_instruction(m.values, ins) IN
    IF SimplifiesToConst(typ, mapped)
    THEN [m EXCEPT !.values = Put(@, ins.res, ConstU1(0))]
    ELSE IF ins.res = 0
    THEN [m EXCEPT !.blocks[block].instrs = <<Simplified(typ, mapped)>> \o @]
    ELSE [m EXCEPT
            !.blocks[block].instrs =
                <<[Simplified(typ, mapped) EXCEPT !.res = m.nextId]>> \o @,
            !.values = Put(@, ins.res, Val(m.nextId)),
            !.nextId = @ + 1,
            !.arrLen = IF ins.op = "make_array" THEN Put(@, m.nextId, ins.imm) ELSE @]

\* FunctionInserter::push_instruction: insert the resolved instruction at the
\* end of `block` under fresh result ids and map the old results to the new.
push_instruction(m, typ, ins, block) ==
    LET mapped == map_instruction(m.values, ins) IN
    IF SimplifiesToConst(typ, mapped)
    THEN [m EXCEPT !.values = Put(@, ins.res, ConstU1(0))]
    ELSE IF ins.res = 0
    THEN [m EXCEPT !.blocks[block].instrs = Append(@, Simplified(typ, mapped))]
    ELSE [m EXCEPT
            !.blocks[block].instrs =
                Append(@, [Simplified(typ, mapped) EXCEPT !.res = m.nextId]),
            !.values = Put(@, ins.res, Val(m.nextId)),
            !.nextId = @ + 1,
            !.arrLen = IF ins.op = "make_array" THEN Put(@, m.nextId, ins.imm) ELSE @]

\* a variant of InsertIncRc that puts the inc_rc at the head of the block
InsertIncRcAtHead(m, made, block) ==
    [m EXCEPT !.blocks[block].instrs =
        <<Ins("inc_rc", <<Val(made.res)>>, 0, 0, made.id)>> \o @]

\* dfg.insert_instruction_and_results(inc_rc, block, ..): no operand is resolved
InsertIncRc(m, made, block) ==
    [m EXCEPT !.blocks[block].instrs =
        Append(@, Ins("inc_rc", <<Val(made.res)>>, 0, 0, made.id))]

\* FunctionInserter::map_terminator_in_place
map_terminator_in_place(m, block) ==
    [m EXCEPT !.blocks[block].term.args =
        [i \in DOMAIN @ |-> resolve(m.values, @[i])]]

\* ----------------------------------------------------- constant evaluation
\* try_convert_field_element_to_signed_integer: the two's complement reading
ToSigned(f, bits) == IF f >= Pow2(bits - 1) THEN f - Pow2(bits) ELSE f
\* convert_signed_integer_to_field_element
FromSigned(n, bits) == IF n < 0 THEN n + Pow2(bits) ELSE n

Abs(n) == IF n < 0 THEN 0 - n ELSE n
\* Rust's integer division and remainder (truncated towards zero), r # 0
TruncDiv(l, r) ==
    IF (l < 0) = (r < 0) THEN Abs(l) \div Abs(r) ELSE 0 - (Abs(l) \div Abs(r))
TruncRem(l, r) == l - r * TruncDiv(l, r)

\* The mathematical result of a binary operator on two integers, r # 0 for div/mod.
MathResult(op, l, r) ==
    CASE BaseOp(op) = "add" -> l + r
      [] BaseOp(op) = "sub" -> l - r
      [] BaseOp(op) = "mul" -> l * r
      [] op = "div" -> TruncDiv(l, r)
      [] op = "mod" -> TruncRem(l, r)
      [] op = "eq" -> IF l = r THEN 1 ELSE 0
      [] op = "lt" -> IF l < r THEN 1 ELSE 0

\* eval_constant_binary_op(lhs, rhs, operator, operand_type): <<result>>, or <<>>
\* (None) when an operand does not fit the type, the divisor is zero or the
\* result leaves the range of the type.
eval_constant_binary_op(lhs, rhs, op, typ) ==
    IF lhs >= Pow2(typ.bits) \/ rhs >= Pow2(typ.bits) THEN <<>>
    ELSE LET l == IF typ.signed THEN ToSigned(lhs, typ.bits) ELSE lhs
             r == IF typ.signed THEN ToSigned(rhs, typ.bits) ELSE rhs
             lowest == IF typ.signed THEN 0 - Pow2(typ.bits - 1) ELSE 0
             highest == IF typ.signed THEN Pow2(typ.bits - 1) - 1 ELSE Pow2(typ.bits) - 1
         IN IF op \in {"div", "mod"} /\ r = 0 THEN <<>>
            ELSE IF MathResult(op, l, r) < lowest \/ MathResult(op, l, r) > highest
            THEN <<>>
            ELSE << FromSigned(MathResult(op, l, r), typ.bits) >>

\* ------------------------------------------------------ purity of instructions
\* Instruction::requires_acir_gen_predicate: the instruction can fail, so its
\* effect depends on the predicate it runs under.
requires_acir_gen_predicate(typ, alen, ins) ==
    CASE ins.op \in CheckedOps -> ~typ.signed
      [] ins.op \in {"div", "mod"} -> ~(IsConst(ins.args[2]) /\ ins.args[2][2] # 0)
      [] ins.op = "array_get" ->
            ~(/\ IsConst(ins.args[2])
              /\ IsVal(ins.args[1]) /\ ins.args[1][2] \in DOMAIN alen
              /\ ins.args[2][2] < alen[ins.args[1][2]])
      [] OTHER -> FALSE

\* a variant of can_be_hoisted that takes a load for pure
can_be_hoisted_load(typ, brillig, alen, ins, withPredicate) ==
    CASE ins.op \in EffectOps \ {"load"} -> FALSE
      [] ins.op \in ConstrainOps -> FALSE
      [] ins.op = "make_array" -> ~brillig
      [] OTHER -> withPredicate \/ ~requires_acir_gen_predicate(typ, alen, ins)

\* Instruction::can_be_hoisted(function, hoist_with_predicate)
can_be_hoisted(typ, brillig, alen, ins, withPredicate) ==
    CASE ins.op \in EffectOps -> FALSE
      [] ins.op \in ConstrainOps -> FALSE
      [] ins.op = "make_array" -> ~brillig
      [] OTHER -> withPredicate \/ ~requires_acir_gen_predicate(typ, alen, ins)

\* ------------------------------------------------------------ loop bounds
\* Loop::get_const_bounds(function, pre_header): <<lower, upper>> or <<>>; the
\* lower bound is the constant the pre-header jumps to the header with, the
\* upper bound the constant the header's only instruction compares against.
get_const_bounds(blks, header, pre) ==
    LET term == blks[pre].term
        ins == blks[header].instrs
    IN IF ~(term.kind = "jmp" /\ Len(term.args) = 1 /\ IsConst(term.args[1])) THEN <<>>
       ELSE IF ins = <<>> THEN <<>>
       ELSE IF ins[1].op = "lt" /\ IsConst(ins[1].args[2])
       THEN << term.args[1][2], ins[1].args[2][2] >>
       ELSE IF ins[1].op = "eq" /\ IsConst(ins[1].args[2])
       THEN << term.args[1][2], ins[1].args[2][2] + 1 >>
       ELSE <<>>

\* Loop::get_induction_variable: the first parameter of the header
get_induction_variable(blks, header) == Val(blks[header].params[1])

\* set_induction_var_bounds: the map with the loop's bounds inserted, if constant
set_induction_var_bounds(map, blks, vals, header, pre) ==
    LET bounds == get_const_bounds(blks, header, pre)
        iv == resolve(vals, get_induction_variable(blks, header))
    IN IF bounds = <<>> THEN map ELSE Put(map, iv[2], bounds)

\* ------------------------------------------------------ bound-aware checks
InMap(o, map) == IsVal(o) /\ o[2] \in DOMAIN map

\* a variant of can_evaluate_binary_op that evaluates every operator at the
\* upper bound
can_evaluate_binary_op_upper(typ, ins, ivs) ==
    LET lhs == ins.args[1]
        rhs == ins.args[2]
    IN IF IsConst(lhs) /\ ~IsConst(rhs) /\ ~InMap(lhs, ivs) /\ InMap(rhs, ivs)
       THEN eval_constant_binary_op(lhs[2], ivs[rhs[2]][2], ins.op, typ) # <<>>
       ELSE IF ~IsConst(lhs) /\ IsConst(rhs) /\ InMap(lhs, ivs) /\ ~InMap(rhs, ivs)
       THEN eval_constant_binary_op(ivs[lhs[2]][2], rhs[2], ins.op, typ) # <<>>
       ELSE FALSE

\* a variant of can_evaluate_binary_op that evaluates a division by the
\* induction variable at the upper bound
can_evaluate_binary_op_divisor_upper(typ, ins, ivs) ==
    LET lhs == ins.args[1]
        rhs == ins.args[2]
    IN IF IsConst(lhs) /\ ~IsConst(rhs) /\ ~InMap(lhs, ivs) /\ InMap(rhs, ivs)
       THEN eval_constant_binary_op(lhs[2], ivs[rhs[2]][2], ins.op, typ) # <<>>
       ELSE IF ~IsConst(lhs) /\ IsConst(rhs) /\ InMap(lhs, ivs) /\ ~InMap(rhs, ivs)
       THEN eval_constant_binary_op(
                IF BaseOp(ins.op) = "sub" THEN ivs[lhs[2]][1] ELSE ivs[lhs[2]][2],
                rhs[2], ins.op, typ) # <<>>
       ELSE FALSE

\* a variant of can_evaluate_binary_op that also accepts, next to an induction
\* variable of the consulted map, an induction variable tracked by either map
can_evaluate_binary_op_mixed(typ, ins, ivs) ==
    LET all == ivs @@ current_induction_variables @@ outer_induction_variables
        upper(o) == IF IsConst(o) THEN o[2] ELSE all[o[2]][2]
    IN /\ \E k \in 1..2 : InMap(ins.args[k], ivs)
       /\ \A k \in 1..2 : IsConst(ins.args[k]) \/ InMap(ins.args[k], all)
       /\ eval_constant_binary_op(upper(ins.args[1]), upper(ins.args[2]), ins.op, typ) # <<>>

\* can_evaluate_binary_op(binary, induction_vars)
can_evaluate_binary_op(typ, ins, ivs) ==
    LET lhs == ins.args[1]
        rhs == ins.args[2]
    IN IF IsConst(lhs) /\ ~IsConst(rhs) /\ ~InMap(lhs, ivs) /\ InMap(rhs, ivs)
       THEN eval_constant_binary_op(
                lhs[2],
                IF ins.op \in {"div", "mod"} THEN ivs[rhs[2]][1] ELSE ivs[rhs[2]][2],
                ins.op, typ) # <<>>
       ELSE IF ~IsConst(lhs) /\ IsConst(rhs) /\ InMap(lhs, ivs) /\ ~InMap(rhs, ivs)
       THEN eval_constant_binary_op(
                IF BaseOp(ins.op) = "sub" THEN ivs[lhs[2]][1] ELSE ivs[lhs[2]][2],
                rhs[2], ins.op, typ) # <<>>
       ELSE FALSE

\* a variant of transform_to_unchecked_from_loop_bounds that consults the
\* bounds recorded for other loops as well
transform_to_unchecked_from_any_bounds(typ, ins, cur) ==
    IF ins.op \notin BinaryOps THEN ins
    ELSE IF is_unchecked(ins.op)
            \/ ~can_evaluate_binary_op(typ, ins, cur @@ outer_induction_variables)
    THEN ins
    ELSE [ins EXCEPT !.op = into_unchecked(ins.op)]

\* a variant of transform_to_unchecked_from_loop_bounds that makes checked
\* again an unchecked operator it cannot prove safe
transform_to_proved_from_loop_bounds(typ, ins, cur) ==
    IF ins.op \notin BinaryOps THEN ins
    ELSE IF can_evaluate_binary_op(typ, ins, cur)
    THEN [ins EXCEPT !.op = into_unchecked(ins.op)]
    ELSE [ins EXCEPT !.op = BaseOp(ins.op)]

\* transform_to_unchecked_from_loop_bounds: the instruction as it is left in place
transform_to_unchecked_from_loop_bounds(typ, ins, cur) ==
    IF ins.op \notin BinaryOps THEN ins
    ELSE IF is_unchecked(ins.op) \/ ~can_evaluate_binary_op(typ, ins, cur) THEN ins
    ELSE [ins EXCEPT !.op = into_unchecked(ins.op)]

\* a variant of does_loop_body_execute that takes the loop to run when its
\* bounds are equal
does_loop_body_execute_negated(cur) ==
    IF DOMAIN cur = {} THEN FALSE
    ELSE LET bounds == cur[CHOOSE k \in DOMAIN cur : TRUE]
         IN bounds[2] = bounds[1]

\* the test of can_be_hoisted_from_loop_bounds on the current loop's bounds
does_loop_body_execute(cur) ==
    IF DOMAIN cur = {} THEN FALSE
    ELSE LET bounds == cur[CHOOSE k \in DOMAIN cur : TRUE]
         IN bounds[2] # bounds[1]

\* a variant of can_be_hoisted_from_loop_bounds that requires the upper bound
\* to be below the array's length
can_be_hoisted_from_loop_bounds_strict(typ, ins, cur, outer, alen, controlDependent) ==
    CASE ins.op = "array_get" ->
            /\ IsVal(ins.args[1]) /\ ins.args[1][2] \in DOMAIN alen
            /\ InMap(ins.args[2], outer)
            /\ outer[ins.args[2][2]][2] < alen[ins.args[1][2]]
      [] ins.op \in BinaryOps -> can_evaluate_binary_op(typ, ins, outer)
      [] ins.op \in ConstrainOps -> does_loop_body_execute(cur) /\ ~controlDependent
      [] OTHER -> FALSE

\* can_be_hoisted_from_loop_bounds(instruction), on the resolved instruction
can_be_hoisted_from_loop_bounds(typ, ins, cur, outer, alen, controlDependent) ==
    CASE ins.op = "array_get" ->
            /\ IsVal(ins.args[1]) /\ ins.args[1][2] \in DOMAIN alen
            /\ InMap(ins.args[2], outer)
            /\ outer[ins.args[2][2]][2] <= alen[ins.args[1][2]]
      [] ins.op \in BinaryOps -> can_evaluate_binary_op(typ, ins, outer)
      [] ins.op \in ConstrainOps -> does_loop_body_execute(cur) /\ ~controlDependent
      [] OTHER -> FALSE

\* a variant of is_loop_invariant that looks at the first operand only
is_loop_invariant_first_operand(ins, defined, invariants) ==
    ins.args = <<>> \/ ins.args[1] \notin defined \/ ins.args[1] \in invariants

\* is_loop_invariant of can_hoist_invariant, on the resolved instruction
is_loop_invariant(ins, defined, invariants) ==
    \A i \in DOMAIN ins.args : ins.args[i] \notin defined \/ ins.args[i] \in invariants

\* a variant of can_hoist_invariant that ignores current_block_control_dependent
can_hoist_invariant_any_block(ins) ==
    LET mapped == map_instruction(values, ins)
        canBeHoisted ==
            \/ can_be_hoisted(prog.typ, prog.brillig, arrLen, mapped, FALSE)
            \/ mapped.op = "make_array"
            \/ can_be_hoisted(prog.typ, prog.brillig, arrLen, mapped, TRUE)
            \/ can_be_hoisted_from_loop_bounds(prog.typ, mapped, current_induction_variables, outer_induction_variables,
                                          arrLen, current_block_control_dependent)
    IN is_loop_invariant(mapped, defined_in_loop, loop_invariants) /\ canBeHoisted

\* can_hoist_invariant(instruction_id)
can_hoist_invariant(ins) ==
    LET mapped == map_instruction(values, ins)
        canBeHoisted ==
            \/ can_be_hoisted(prog.typ, prog.brillig, arrLen, mapped, FALSE)
            \/ mapped.op = "make_array"
            \/ can_be_hoisted(prog.typ, prog.brillig, arrLen, mapped, TRUE) /\ ~current_block_control_dependent
            \/ can_be_hoisted_from_loop_bounds(prog.typ, mapped, current_induction_variables, outer_induction_variables,
                                          arrLen, current_block_control_dependent)
    IN is_loop_invariant(mapped, defined_in_loop, loop_invariants) /\ canBeHoisted

\* --------------------------------------------------------- control dependence
\* a variant of is_control_dependent that looks the pair up the other way round
is_control_dependent_on_child(parent, block) ==
    parent \in DOMAIN post_dom_frontiers /\ block \in post_dom_frontiers[parent]

\* is_control_dependent(parent_block, block)
is_control_dependent(parent, block) ==
    block \in DOMAIN post_dom_frontiers /\ parent \in post_dom_frontiers[block]

\* a variant of is_control_dependent_post_pre_header that takes every block
\* after the header for control-dependent
always_control_dependent(p, header, block, old) == block # header \/ old

\* a variant of is_control_dependent_post_pre_header that forgets what earlier
\* blocks of the loop found
control_dependent_per_block(p, header, block, old) ==
    \E pred \in find_blocks_in_loop(p, header, block) \ {block, header} :
        is_control_dependent(pred, block)

\* is_control_dependent_post_pre_header: the current_block_control_dependent after visiting `block`
is_control_dependent_post_pre_header(p, header, block, old) ==
    IF \E pred \in find_blocks_in_loop(p, header, block) \ {block, header} :
            is_control_dependent(pred, block)
    THEN TRUE ELSE old

\* ------------------------------------------------- the input functions
LowerBounds == {Const(n) : n \in 0..MaxBound}
\* a constant upper bound, or the function's second parameter (dynamic)
UpperBounds == {Const(n) : n \in 0..MaxBound} \cup {Y}

\* op iv, c and op c, iv for small constants and for constants at the edge of
\* the type: u8 255, i8 -127 (bit pattern 129) and i8 -2 (bit pattern 254)
EdgeConsts(typ) == IF typ.signed THEN {129, 254} ELSE {255}
ArithPairs(typ) ==
    {<<op, c>> : op \in {"add", "sub"}, c \in (1..MaxConst) \cup EdgeConsts(typ)}
    \cup {<<"mul", c>> : c \in (2..MaxConst) \cup EdgeConsts(typ)}
ArithBodies(typ, b, iv) ==
    {SnipBin(b, oc[1], iv, Const(oc[2])) : oc \in ArithPairs(typ)}
    \cup {SnipBin(b, oc[1], Const(oc[2]), iv) : oc \in ArithPairs(typ)}

SimpleBodies(typ) ==
    {SnipSimple(20), SnipChain(20), SnipBin(20, "div", X, Y)}
    \cup {SnipAssert(20, op) : op \in ConstrainOps}
    \cup ArithBodies(typ, 20, Val(5))

SimplePrograms ==
    {ShapeSimple(typ, TRUE, <<>>, lo, up, body) :
        typ \in {U8, I8}, lo \in LowerBounds, up \in UpperBounds,
        body \in SimpleBodies(U8) \cup SimpleBodies(I8)}
    \cup {ShapeSimple(U8, TRUE, <<MakeArr(3)>>, lo, up, SnipArrayGet(20, idx)) :
            lo \in LowerBounds, up \in UpperBounds, idx \in {X, Val(5)}}

DiamondPrograms ==
    {ShapeDiamond(typ, TRUE, <<MakeArr(3)>>, Const(0), up, inCond, inThen, inEnd) :
        typ \in {U8, I8}, up \in {Const(0), Const(MaxBound), Y},
        inCond \in {<<>>, SnipBin(20, "mul", X, Y)},
        inThen \in {SnipSimple(30), SnipBin(30, "div", X, Y), SnipArrayGet(30, X),
                    SnipBin(30, "eq", X, Y)},
        inEnd \in {<<>>, SnipSimple(40), SnipBin(40, "div", X, Y)}}

NestedBodies ==
    {SnipSimple(30), SnipArrayGet(30, Val(5)), SnipArrayGet(30, Val(7)),
     SnipBinAssert(30, "div", Const(10), Val(5)), SnipBin(30, "add", Val(5), Const(2)),
     SnipBin(30, "add", Val(5), Val(7))}

NestedPrograms ==
    {ShapeNested(U8, TRUE, <<MakeArr(3)>>, lo1, up1, Const(0), up2, <<>>, body) :
        lo1 \in {Const(0), Const(1)}, up1 \in LowerBounds,
        up2 \in {Const(0), Const(MaxBound), Y}, body \in NestedBodies}
    \cup {ShapeNested(typ, TRUE, <<>>, Const(0), up1, Const(0), up2, <<>>, body) :
            typ \in {U8, I8}, up1 \in {Const(0), Const(MaxBound), Y},
            up2 \in {Const(0), Const(MaxBound), Y},
            body \in {SnipSimple(30), SnipChain(30)}}

NestedDiamondPrograms ==
    {ShapeNestedDiamond(U8, TRUE, <<MakeArr(3)>>, lo1, up1, Const(0), Const(MaxBound),
                        inThen, inEnd) :
        lo1 \in {Const(0), Const(1)}, up1 \in LowerBounds,
        inThen \in {SnipSimple(30), SnipArrayGet(30, Val(5)),
                    SnipBinAssert(30, "div", Const(10), Val(5)),
                    SnipBin(30, "sub", Val(5), Const(1))},
        inEnd \in {<<>>, SnipSimple(40)}}

SiblingPrograms ==
    {ShapeSiblings(typ, TRUE, up1, up2, inThen, body2) :
        typ \in {U8, I8}, up1 \in {Const(0), Const(MaxBound)},
        up2 \in {Const(0), Const(MaxBound), Y},
        inThen \in {<<>>, SnipSimple(30)},
        body2 \in {SnipSimple(40), SnipChain(40), SnipBin(40, "div", X, Y)}}
    \cup {ShapeSiblingsBreak(typ, 3, up1, up2, inLatch) :
            typ \in {U8, I8}, up1 \in {Const(3), Const(MaxBound), Y},
            up2 \in {Const(MaxBound), Y},
            inLatch \in {SnipArrayGet(40, Val(5)), SnipBin(40, "add", Val(5), Const(1)),
                         SnipBin(40, "add", Val(7), Const(1))
                            \o SnipBin(50, "add", Val(5), Const(1))}}

SkippedLoopPrograms ==
    {ShapeSkippedSibling(typ, up1, up2, body1, body2, first) :
        typ \in {U8, I8}, up1 \in {Const(MaxBound), Y}, up2 \in {Const(MaxBound), Y},
        body1 \in {SnipSimple(30), SnipBin(30, "sub", Val(5), Const(1))},
        body2 \in {SnipSimple(40), SnipChain(40)}, first \in {1, 2}}
    \cup {ShapeSkippedInner(typ, up1, up2, body) :
            typ \in {U8, I8}, up1 \in {Const(0), Const(MaxBound), Y},
            up2 \in {Const(MaxBound), Y},
            body \in {SnipSimple(30), SnipBin(30, "eq", X, Y),
                      SnipBin(30, "add", Val(5), Const(1))}}

UseAfterPrograms ==
    {ShapeUseAfterLoop(typ, lo, up, body) :
        typ \in {U8, I8}, lo \in {Const(0), Const(1)},
        up \in {Const(0), Const(1), Const(MaxBound), Y},
        body \in {SnipSimple(20), SnipChain(20)}}
    \cup {ShapeNestedUse(typ, up1, up2, body) :
            typ \in {U8, I8}, up1 \in {Const(1), Const(MaxBound), Y},
            up2 \in {Const(0), Const(MaxBound), Y},
            body \in {SnipSimple(30), SnipBin(30, "add", Val(5), Val(7))}}

\* a make_array between two instructions that stay in the loop
MakeArrayBodies(iv) ==
    {SnipMakeArray(20),
     SnipBin(20, "add", X, iv) \o SnipMakeArray(30) \o SnipBin(40, "add", Y, iv),
     SnipBin(20, "add", X, iv) \o SnipMakeArrayOf(30, iv)}

MakeArrayPrograms ==
    {ShapeSimple(U8, brillig, <<>>, Const(0), up, body) :
        brillig \in BOOLEAN, up \in {Const(0), Const(MaxBound), Y},
        body \in MakeArrayBodies(Val(5))}
    \cup {ShapeNested(U8, brillig, <<>>, Const(0), Const(MaxBound), Const(0), up2, inPre, body) :
            brillig \in BOOLEAN, up2 \in {Const(0), Const(MaxBound)},
            inPre \in {<<>>, SnipMakeArray(50)},
            body \in MakeArrayBodies(Val(7)) \cup {SnipMakeArrayOf(30, Val(5))}}

TwoBodiesPrograms ==
    {ShapeTwoBodies(typ, Const(0), up, inFirst, inSecond) :
        typ \in {U8, I8}, up \in {Const(0), Const(MaxBound), Y},
        inFirst \in {SnipBin(20, "mul", X, Y), SnipChain(20)},
        inSecond \in {SnipBinAssert(30, "mul", Val(21), X), SnipSimple(30),
                      SnipBin(30, "add", Val(21), Val(5))}}

\* arr[i] and arr[j] read in the innermost body of three loops
TriplePrograms ==
    {ShapeTriple(U8, <<MakeArr(3)>>, up1, up2, up3, body) :
        up1 \in {Const(2), Const(3)}, up2 \in {Const(0), Const(3)},
        up3 \in {Const(0), Const(2)},
        body \in {SnipArrayGet(30, Val(5)) \o SnipArrayGet(40, Val(7)),
                  SnipArrayGet(30, Val(7))}}

\* `div c, iv` and `mod c, iv` under a branch of the inner loop, iv being the
\* outer loop's; 128 is i8 -128 and the lower bound 255 is i8 -1
DivisionPrograms ==
    {ShapeNestedDiamond(typ, TRUE, <<>>, lo1, up1, Const(0), Const(MaxBound),
                        SnipBinAssert(30, op, Const(c), Val(5)), <<>>) :
        typ \in {U8, I8}, lo1 \in {Const(0), Const(1), Const(255)},
        up1 \in {Const(2), Y}, op \in {"div", "mod"}, c \in {10, 128}}

\* loops of instructions with side effects and of instructions that read the
\* induction variable
EffectBodies(iv) ==
    {SnipOutsideEffects(20), SnipEffects(20),
     SnipOutsideEffects(20) \o SnipBin(40, "add", iv, Const(1)),
     SnipOutsideEffects(20) \o SnipBin(40, "eq", iv, X),
     SnipEffects(20) \o SnipBin(40, "mul", iv, Y)}

EffectPrograms ==
    {ShapeSimple(U8, brillig, <<MakeArr(3)>> \o EffectsEntry, Const(0), up, body) :
        brillig \in BOOLEAN, up \in {Const(0), Const(1), Const(MaxBound), Y},
        body \in EffectBodies(Val(5))}
    \cup {ShapeNested(U8, TRUE, <<MakeArr(3)>> \o EffectsEntry, Const(0), Const(MaxBound),
                      Const(0), up2, inPre, body) :
            up2 \in {Const(MaxBound), Y}, inPre \in {<<>>, SnipOutsideEffects(50)},
            body \in EffectBodies(Val(7))}

NoPreHeaderPrograms ==
    {ShapeNoPreHeader(U8, <<>>, up, body) :
        up \in {Const(MaxBound), Y}, body \in {SnipSimple(20), SnipBin(20, "div", X, Y)}}

\* the bit pattern of the largest value of a type; adding 1 to it is not
\* folded to a constant on insertion because the sum leaves the type
HighestOf(typ) == IF typ.signed THEN Pow2(typ.bits - 1) - 1 ELSE Pow2(typ.bits) - 1

\* loops with a second exit and loops entered under a branch
BranchingPrograms ==
    {ShapeBreak(typ, up, inBody, inLatch) :
        typ \in {U8, I8}, up \in {Const(MaxBound), Y},
        inBody \in {SnipSimple(20), SnipBin(20, "div", X, Y)},
        inLatch \in {SnipSimple(30), SnipBin(30, "eq", X, Y)}}
    \cup {ShapeBreak(typ, up, SnipBin(20, "add", Const(HighestOf(typ)), Const(1)), inLatch) :
        typ \in {U8, I8}, up \in {Const(MaxBound), Y},
        inLatch \in {SnipSimple(30), SnipBin(30, "eq", X, Y)}}
    \cup {ShapeGuardedInner(typ, up1, up2, inPre, inBody) :
        typ \in {U8, I8}, up1 \in {Const(MaxBound), Y}, up2 \in {Const(MaxBound), Y},
        inPre \in {<<>>, SnipSimple(20)},
        inBody \in {SnipSimple(30), SnipBin(30, "add", Val(5), Const(2)),
                    SnipBin(30, "add", Val(7), Const(2))}}

Programs ==
    SimplePrograms \cup DiamondPrograms \cup NestedPrograms
    \cup NestedDiamondPrograms \cup NoPreHeaderPrograms
    \cup SiblingPrograms \cup SkippedLoopPrograms \cup UseAfterPrograms
    \cup MakeArrayPrograms \cup TwoBodiesPrograms \cup TriplePrograms
    \cup DivisionPrograms \cup EffectPrograms \cup BranchingPrograms

AllInstrs(blks) == UNION {Range(blks[b].instrs) : b \in DOMAIN blks}

\* the lengths of the array types of the values of a function
ArrayLengths(blks) ==
    LET made == {i \in AllInstrs(blks) : i.op = "make_array"}
    IN [v \in {i.res : i \in made} |-> (CHOOSE i \in made : i.res = v).imm]

NoStep ==
    [id |-> 0, op0 |-> "", op1 |-> "", args |-> <<>>, hoisted |-> FALSE,
     defined |-> {}, invariants |-> {}, loop |-> 0, block |-> 0 - 1,
     controlDependent |-> FALSE, current |-> EmptyMap, outer |-> EmptyMap]

\* LoopInvariantContext::new
Init ==
    /\ prog \in Programs
    /\ blocks = prog.blocks
    /\ values = EmptyMap
    /\ nextId = 100
    /\ arrLen = ArrayLengths(prog.blocks)
    /\ yet_to_unroll = [i \in 1..Len(prog.loops) |-> i]
    /\ pc = "pop"
    /\ curLoop = 0
    /\ blockQueue = <<>>
    /\ curBlock = 0 - 1
    /\ instrQueue = <<>>
    /\ defined_in_loop = {}
    /\ loop_invariants = {}
    /\ current_induction_variables = EmptyMap
    /\ outer_induction_variables = EmptyMap
    /\ current_pre_header = 0 - 1
    /\ current_block_control_dependent = FALSE
    /\ post_dom_frontiers = compute_dominance_frontiers(prog)
    /\ run = 1
    /\ last = NoStep

\* ------------------------------------------------------------- the pass
Machine == [blocks |-> blocks, values |-> values, nextId |-> nextId, arrLen |-> arrLen]

CurrentLoop == prog.loops[curLoop]

\* Loop::get_pre_header: the predecessors of the header other than the back edge
\* a variant of PreHeaderCandidates that settles for one of several entries
PreHeaderFirst(p, loop) ==
    {CHOOSE b \in Preds(p, loop.header) \ {loop.backEdge} : TRUE}

PreHeaderCandidates(p, loop) == Preds(p, loop.header) \ {loop.backEdge}

\* a variant of ValuesDefinedIn that gathers the instruction results only
ResultsDefinedIn(blks, loopBlocks) ==
    {Val(i.res) : i \in {j \in UNION {Range(blks[b].instrs) : b \in loopBlocks} :
                                j.res # 0}}

\* the parameters and instruction results of every block of the loop
ValuesDefinedIn(blks, loopBlocks) ==
    {Val(v) : v \in UNION {Range(blks[b].params) : b \in loopBlocks}}
    \cup {Val(i.res) : i \in {j \in UNION {Range(blks[b].instrs) : b \in loopBlocks} :
                                j.res # 0}}

\* a variant of reset_control_dependent that keeps the previous loop's flag
keep_control_dependent(old) == old

\* set_values_defined_in_loop: `self.current_block_control_dependent = false`,
\* whatever the previous loop left
reset_control_dependent(old) == FALSE

\* a variant of pre_header that answers with the entry block of the function
entry_block(current) == 0

\* LoopInvariantContext::pre_header: the block stored in current_pre_header
\* (-1 stands for None, on which the code panics)
pre_header(current) == current

\* a variant of clear that keeps the entries of the previous loop
keep(map) == map

\* set_values_defined_in_loop: `self.current_induction_variables.clear()`
clear(map) == EmptyMap

\* a variant of pop that takes the loops from the other end of the list
pop_front(q) == << Head(q), Tail(q) >>

\* `self.yet_to_unroll.pop()`: the last loop of the list, and the list without it
pop(q) == << q[Len(q)], SubSeq(q, 1, Len(q) - 1) >>

\* Loops::hoist_loop_invariants pops a loop that has a pre-header;
\* LoopInvariantContext::hoist_loop_invariants starts with
\* set_values_defined_in_loop.
StartLoop ==
    /\ pc = "pop"
    /\ yet_to_unroll # <<>>
    /\ LET li == pop(yet_to_unroll)[1]
           loop == prog.loops[li]
           pres == PreHeaderCandidates(prog, loop)
       IN /\ Cardinality(pres) = 1
          /\ LET pre == CHOOSE b \in pres : TRUE IN
             /\ current_pre_header' = pre
             /\ current_induction_variables' =
                    set_induction_var_bounds(clear(current_induction_variables),
                                             blocks, values, loop.header, pre)
          /\ curLoop' = li
          /\ defined_in_loop' = ValuesDefinedIn(blocks, LoopBlocks(prog, loop))
          /\ blockQueue' = SeqOfSet(LoopBlocks(prog, loop))
    /\ yet_to_unroll' = pop(yet_to_unroll)[2]
    /\ loop_invariants' = {}
    /\ current_block_control_dependent' =
           reset_control_dependent(current_block_control_dependent)
    /\ pc' = "block"
    /\ UNCHANGED << prog, post_dom_frontiers, run, blocks, values, nextId, arrLen, curBlock, instrQueue,
                    outer_induction_variables, last >>

\* Loops::hoist_loop_invariants pops a loop without a pre-header: `continue`
SkipLoop ==
    /\ pc = "pop"
    /\ yet_to_unroll # <<>>
    /\ Cardinality(PreHeaderCandidates(prog, prog.loops[pop(yet_to_unroll)[1]])) # 1
    /\ yet_to_unroll' = pop(yet_to_unroll)[2]
    /\ UNCHANGED << prog, post_dom_frontiers, run, blocks, values, nextId, arrLen, pc, curLoop, blockQueue,
                    curBlock, instrQueue, defined_in_loop, loop_invariants,
                    current_induction_variables, outer_induction_variables,
                    current_pre_header, current_block_control_dependent, last >>

\* the head of `for block in loop_.blocks.iter()`: the control dependence of
\* the block, then take_instructions
VisitBlock ==
    /\ pc = "block"
    /\ blockQueue # <<>>
    /\ LET b == Head(blockQueue) IN
       /\ current_block_control_dependent' =
            is_control_dependent_post_pre_header(prog, CurrentLoop.header, b,
                                                 current_block_control_dependent)
       /\ curBlock' = b
       /\ instrQueue' = blocks[b].instrs
       /\ blocks' = [blocks EXCEPT ![b].instrs = <<>>]
       /\ pc' = IF blocks[b].instrs = <<>> THEN "block" ELSE "instr"
    /\ blockQueue' = Tail(blockQueue)
    /\ UNCHANGED << prog, post_dom_frontiers, run, values, nextId, arrLen, yet_to_unroll, curLoop,
                    defined_in_loop, loop_invariants, current_induction_variables,
                    outer_induction_variables, current_pre_header, last >>

\* the body of `for instruction_id in ..take_instructions()`
ProcessInstruction ==
    /\ pc = "instr"
    /\ LET ins == transform_to_unchecked_from_loop_bounds(
                      prog.typ, Head(instrQueue), current_induction_variables)
           hoist == can_hoist_invariant(ins)
           pushed == push_instruction(Machine, prog.typ, ins,
                                      IF hoist THEN pre_header(current_pre_header)
                                      ELSE curBlock)
           m == IF hoist /\ prog.brillig /\ ins.op = "make_array"
                THEN InsertIncRc(pushed, ins, curBlock) ELSE pushed
           results == IF ins.res = 0 THEN {} ELSE {resolve(m.values, Val(ins.res))}
       IN /\ blocks' = m.blocks
          /\ values' = m.values
          /\ nextId' = m.nextId
          /\ arrLen' = m.arrLen
          /\ defined_in_loop' = defined_in_loop \cup results
          /\ loop_invariants' = IF hoist THEN loop_invariants \cup results
                                ELSE loop_invariants
          /\ last' = [id |-> ins.id, op0 |-> Head(instrQueue).op, op1 |-> ins.op,
                      args |-> map_instruction(values, ins).args, hoisted |-> hoist,
                      defined |-> defined_in_loop, invariants |-> loop_invariants,
                      loop |-> curLoop, block |-> curBlock,
                      controlDependent |-> current_block_control_dependent,
                      current |-> current_induction_variables,
                      outer |-> outer_induction_variables]
    /\ instrQueue' = Tail(instrQueue)
    /\ pc' = IF Tail(instrQueue) = <<>> THEN "block" ELSE "instr"
    /\ UNCHANGED << prog, post_dom_frontiers, run, yet_to_unroll, curLoop, blockQueue, curBlock,
                    current_induction_variables, outer_induction_variables,
                    current_pre_header, current_block_control_dependent >>

\* the end of LoopInvariantContext::hoist_loop_invariants:
\* set_induction_var_bounds(loop_, false)
EndLoop ==
    /\ pc = "block"
    /\ blockQueue = <<>>
    /\ outer_induction_variables' =
            set_induction_var_bounds(outer_induction_variables, blocks, values,
                                     CurrentLoop.header, pre_header(current_pre_header))
    /\ pc' = "pop"
    /\ UNCHANGED << prog, post_dom_frontiers, run, blocks, values, nextId, arrLen, yet_to_unroll, curLoop,
                    blockQueue, curBlock, instrQueue, defined_in_loop, loop_invariants,
                    current_induction_variables, current_pre_header,
                    current_block_control_dependent, last >>

\* PostOrder::with_function: depth-first from the entry block with an explicit
\* stack; a block is emitted when it is popped the second time.
RECURSIVE post_order(_, _, _, _)
post_order(p, stack, visited, out) ==
    IF stack = <<>> THEN out
    ELSE LET top == stack[Len(stack)]
             rest == SubSeq(stack, 1, Len(stack) - 1)
         IN IF top[1] = "last" THEN post_order(p, rest, visited, Append(out, top[2]))
            ELSE IF top[2] \in visited THEN post_order(p, rest, visited, out)
            ELSE LET dests == p.blocks[top[2]].term.dests
                     rev == [i \in 1..Len(dests) |-> dests[Len(dests) + 1 - i]]
                     todo == SelectSeq(rev, LAMBDA d : d \notin visited /\ d # top[2])
                 IN post_order(p,
                               rest \o <<(<<"last", top[2]>>)>>
                                    \o [i \in 1..Len(todo) |-> <<"first", todo[i]>>],
                               visited \cup {top[2]}, out)

Reverse(q) == [i \in 1..Len(q) |-> q[Len(q) + 1 - i]]

RECURSIVE PushAll(_, _, _, _)
PushAll(m, typ, instrs, block) ==
    IF instrs = <<>> THEN m
    ELSE PushAll(push_instruction(m, typ, Head(instrs), block), typ, Tail(instrs), block)

RECURSIVE RemapBlocks(_, _, _)
RemapBlocks(m, typ, order) ==
    IF order = <<>> THEN m
    ELSE LET b == Head(order)
             emptied == [m EXCEPT !.blocks[b].instrs = <<>>]
             pushed == PushAll(emptied, typ, m.blocks[b].instrs, b)
         IN RemapBlocks(map_terminator_in_place(pushed, b), typ, Tail(order))

\* a variant of map_dependent_instructions that revisits no block
keep_dependent_instructions(m, p) == m

\* map_dependent_instructions: every block, in reverse post-order
map_dependent_instructions(m, p) ==
    RemapBlocks(m, p.typ, Reverse(post_order(p, << <<"first", 0>> >>, {}, <<>>)))

\* the worklist is empty: map_dependent_instructions, and the pass returns
Finish ==
    /\ pc = "pop"
    /\ yet_to_unroll = <<>>
    /\ LET m == map_dependent_instructions(Machine, prog)
       IN /\ blocks' = m.blocks
          /\ values' = m.values
          /\ nextId' = m.nextId
          /\ arrLen' = m.arrLen
    /\ pc' = "done"
    /\ UNCHANGED << prog, post_dom_frontiers, run, yet_to_unroll, curLoop, blockQueue, curBlock, instrQueue,
                    defined_in_loop, loop_invariants, current_induction_variables,
                    outer_induction_variables, current_pre_header,
                    current_block_control_dependent, last >>

Next ==
    \/ StartLoop
    \/ SkipLoop
    \/ VisitBlock
    \/ ProcessInstruction
    \/ EndLoop
    \/ Finish

Spec == Init /\ [][Next]_vars

\* Function::loop_invariant_code_motion called again, on the function the
\* first call returned: a new context over the same function
Rerun ==
    /\ pc = "done"
    /\ run = 1
    /\ run' = 2
    /\ prog' = [prog EXCEPT !.blocks = blocks]
    /\ values' = EmptyMap
    /\ yet_to_unroll' = [i \in 1..Len(prog.loops) |-> i]
    /\ pc' = "pop"
    /\ curLoop' = 0
    /\ blockQueue' = <<>>
    /\ curBlock' = 0 - 1
    /\ instrQueue' = <<>>
    /\ defined_in_loop' = {}
    /\ loop_invariants' = {}
    /\ current_induction_variables' = EmptyMap
    /\ outer_induction_variables' = EmptyMap
    /\ current_pre_header' = 0 - 1
    /\ current_block_control_dependent' = FALSE
    /\ post_dom_frontiers' = compute_dominance_frontiers(prog')
    /\ last' = NoStep
    /\ UNCHANGED << blocks, nextId, arrLen >>

NextTwice ==
    \/ Next
    \/ Rerun

SpecTwice == Init /\ [][NextTwice]_vars

\* ------------------------------------------------ running a function
\* The meaning of a function on an assignment of its two parameters: <<"fail">>
\* (a constraint, a checked operation, an index or a division failed),
\* <<"dangling">> (an operand that no executed instruction defined) or
\* <<"ok", returned values, calls made>>.  Numbers are bit patterns of the
\* function's numeric type.  An instruction can fail exactly when
\* requires_acir_gen_predicate holds of it, or it is assertion-like.
Wrap(n, typ) == n % Pow2(typ.bits)
Num(f, typ) == IF typ.signed THEN ToSigned(f, typ.bits) ELSE f

Operand(env, o) == IF IsConst(o) THEN o[2] ELSE env[o[2]]

BinaryFails(typ, op, l, r) ==
    CASE op \in CheckedOps ->
            ~typ.signed /\ (MathResult(op, l, r) < 0 \/ MathResult(op, l, r) >= Pow2(typ.bits))
      [] op \in {"div", "mod"} -> r = 0
      [] OTHER -> FALSE

BinaryValue(typ, op, l, r) == Wrap(MathResult(op, Num(l, typ), Num(r, typ)), typ)

InstructionFails(typ, env, ins) ==
    CASE ins.op \in BinaryOps ->
            BinaryFails(typ, ins.op, Operand(env, ins.args[1]), Operand(env, ins.args[2]))
      [] ins.op = "constrain" -> Operand(env, ins.args[1]) # Operand(env, ins.args[2])
      [] ins.op = "constrain_ne" -> Operand(env, ins.args[1]) = Operand(env, ins.args[2])
      [] ins.op = "range_check" -> Operand(env, ins.args[1]) >= Pow2(ins.imm)
      [] ins.op = "array_get" ->
            Operand(env, ins.args[2]) >= Len(Operand(env, ins.args[1]))
      [] OTHER -> FALSE

InstructionValue(typ, env, mem, ins) ==
    CASE ins.op \in BinaryOps ->
            BinaryValue(typ, ins.op, Operand(env, ins.args[1]), Operand(env, ins.args[2]))
      [] ins.op = "array_get" ->
            Operand(env, ins.args[1])[Operand(env, ins.args[2]) + 1]
      [] ins.op = "make_array" -> [i \in DOMAIN ins.args |-> Operand(env, ins.args[i])]
      [] ins.op = "allocate" -> ins.res
      [] ins.op = "load" ->
            IF Operand(env, ins.args[1]) \in DOMAIN mem
            THEN mem[Operand(env, ins.args[1])] ELSE 0
      [] OTHER -> 0

Dangling(env, args) == \E i \in DOMAIN args : IsVal(args[i]) /\ args[i][2] \notin DOMAIN env

RECURSIVE Run(_, _, _, _, _, _, _)
Run(blks, typ, b, i, env, mem, calls) ==
    IF i <= Len(blks[b].instrs)
    THEN LET ins == blks[b].instrs[i] IN
         IF Dangling(env, ins.args) THEN <<"dangling">>
         ELSE IF InstructionFails(typ, env, ins) THEN <<"fail">>
         ELSE Run(blks, typ, b, i + 1,
                  IF ins.res = 0 THEN env
                  ELSE Put(env, ins.res, InstructionValue(typ, env, mem, ins)),
                  IF ins.op = "store"
                  THEN Put(mem, Operand(env, ins.args[1]), Operand(env, ins.args[2]))
                  ELSE mem,
                  IF ins.op = "call"
                  THEN Append(calls, [k \in DOMAIN ins.args |-> Operand(env, ins.args[k])])
                  ELSE calls)
    ELSE LET term == blks[b].term IN
         IF Dangling(env, term.args) THEN <<"dangling">>
         ELSE IF term.kind = "return"
         THEN <<"ok", [k \in DOMAIN term.args |-> Operand(env, term.args[k])], calls>>
         ELSE IF term.kind = "jmpif"
         THEN Run(blks, typ,
                  IF Operand(env, term.args[1]) # 0 THEN term.dests[1] ELSE term.dests[2],
                  1, env, mem, calls)
         ELSE Run(blks, typ, term.dests[1], 1,
                  [k \in {blks[term.dests[1]].params[j] : j \in DOMAIN term.args}
                        |-> Operand(env, term.args[
                                CHOOSE j \in DOMAIN term.args :
                                    blks[term.dests[1]].params[j] = k])] @@ env,
                  mem, calls)

\* the assignments of the two parameters the functions are run on
Inputs == {<<x, y>> : x \in {0, 2, 3, 200}, y \in {0, 2, 3}}

Execute(blks, typ, in) ==
    Run(blks, typ, 0, 1, (1 :> in[1]) @@ (2 :> in[2]), EmptyMap, <<>>)

\* ------------------------------------------------------------ properties
Done == pc = "done"

\* `last` describes an instruction step, and the function is still as that
\* step left it or as later steps of the loops extended it
Stepped == last.id # 0 /\ pc # "done"
LastIns == [op |-> last.op1, args |-> last.args]
LastLoop == prog.loops[last.loop]

\* the constant bounds of a loop in the input function, <<>> if it has none
InputBounds(loop) ==
    IF Cardinality(PreHeaderCandidates(prog, loop)) # 1 THEN <<>>
    ELSE get_const_bounds(prog.blocks, loop.header,
                          CHOOSE b \in PreHeaderCandidates(prog, loop) : TRUE)

\* the block lies under a conditional branch strictly inside the loop: it is
\* control-dependent on a block between the header and itself
UnderBranch(loop, block) ==
    \E x \in find_blocks_in_loop(prog, loop.header, block) \ {loop.header, block} :
        /\ Cardinality(Succs(prog, x)) > 1
        /\ \E s \in Succs(prog, x) : PostDominates(prog, block, s)
        /\ ~PostDominates(prog, block, x)

\* every operand of the last instruction was invariant when it was visited
LastInvariant ==
    \A i \in DOMAIN last.args :
        last.args[i] \notin last.defined \/ last.args[i] \in last.invariants

\* the block of the current function that defines a value (-1: none)
DefinedInBlocks(v) ==
    {b \in DOMAIN blocks :
        \/ v \in Range(blocks[b].params)
        \/ \E i \in DOMAIN blocks[b].instrs : blocks[b].instrs[i].res = v}

InRange(typ, n) ==
    IF typ.signed THEN 0 - Pow2(typ.bits - 1) <= n /\ n < Pow2(typ.bits - 1)
    ELSE 0 <= n /\ n < Pow2(typ.bits)

\* C1: the function the pass returns fails exactly when the input function
\* fails, and otherwise returns the same values, on every assignment of the
\* parameters.
SemanticTransparency ==
    Done => \A in \in Inputs :
                Execute(blocks, prog.typ, in) = Execute(prog.blocks, prog.typ, in)

\* C2: every operand of an instruction moved to the pre-header is outside
\* defined_in_loop or in loop_invariants; in the function as rewritten, it is
\* a constant or is defined in a block outside the loop.
InvarianceCorrectness ==
    Stepped /\ last.hoisted =>
        \A i \in DOMAIN last.args :
            /\ last.args[i] \notin last.defined \/ last.args[i] \in last.invariants
            /\ \/ IsConst(last.args[i])
               \/ /\ DefinedInBlocks(last.args[i][2]) # {}
                  /\ DefinedInBlocks(last.args[i][2]) \cap LoopBlocks(prog, LastLoop) = {}

\* C2 witness: an instruction was hoisted that reads a result hoisted before it
HoistedReadingInvariant ==
    /\ Stepped /\ last.hoisted
    /\ \E i \in DOMAIN last.args : last.args[i] \in last.invariants

\* C3: an assertion-like instruction is hoisted only out of a loop whose
\* constant bounds prove that the body runs (lower < upper).
NonEmptinessGating ==
    Stepped /\ last.hoisted /\ last.op1 \in ConstrainOps =>
        /\ InputBounds(LastLoop) # <<>>
        /\ InputBounds(LastLoop)[1] < InputBounds(LastLoop)[2]

\* C4: no assertion-like instruction of a loop whose constant lower bound
\* exceeds its constant upper bound is hoisted.
InvertedBoundsNotHoisted ==
    /\ Stepped /\ last.op1 \in ConstrainOps
    /\ InputBounds(LastLoop) # <<>>
    /\ InputBounds(LastLoop)[1] > InputBounds(LastLoop)[2]
    => ~last.hoisted

\* the last instruction is pure only under a predicate
LastRequiresPredicate ==
    /\ can_be_hoisted(prog.typ, prog.brillig, arrLen, LastIns, TRUE)
    /\ ~can_be_hoisted(prog.typ, prog.brillig, arrLen, LastIns, FALSE)

\* C5: an instruction that is pure only under a predicate and whose block
\* lies under a conditional branch strictly inside the loop is never hoisted
\* out of that loop.
ControlDependentNeverHoisted ==
    Stepped /\ LastRequiresPredicate /\ UnderBranch(LastLoop, last.block)
        => ~last.hoisted

\* the bound-aware approval: an array read indexed by a recorded induction
\* variable whose upper bound is at most the array's length, or a binary
\* operation on a constant and a recorded induction variable that evaluates
\* at the recorded bound
ApprovedByOuterBounds ==
    \/ /\ last.op1 = "array_get"
       /\ InMap(last.args[2], last.outer)
       /\ last.outer[last.args[2][2]][2] <= arrLen[last.args[1][2]]
    \/ /\ last.op1 \in BinaryOps
       /\ can_evaluate_binary_op(prog.typ, LastIns, last.outer)

\* while current_block_control_dependent is set, an instruction that is pure
\* only under a predicate is hoisted only when the bounds recorded for the
\* enclosing loops approve it
FlaggedHoistedOnlyByBounds ==
    Stepped /\ LastRequiresPredicate /\ last.controlDependent /\ last.hoisted
        => ApprovedByOuterBounds

\* C6: an invariant instruction that is pure only under a predicate and whose
\* block is not under a conditional branch inside the loop is hoisted, whatever
\* blocks of the loop were visited before it.
NotControlDependentHoisted ==
    Stepped /\ LastRequiresPredicate /\ LastInvariant
        /\ ~UnderBranch(LastLoop, last.block) => last.hoisted

\* the last instruction is an array read indexed by a value with recorded bounds
ArrayGetByInductionVariable(map) ==
    Stepped /\ last.op1 = "array_get" /\ InMap(last.args[2], map)

\* C7 as stated: an array read whose index is an induction variable is
\* hoisted if and only if that variable's recorded upper bound is at most the
\* array's length.
ArrayGetHoistedIffInBounds ==
    /\ ArrayGetByInductionVariable(last.current) =>
          (last.hoisted <=> last.current[last.args[2][2]][2] <= arrLen[last.args[1][2]])
    /\ ArrayGetByInductionVariable(last.outer) =>
          (last.hoisted <=> last.outer[last.args[2][2]][2] <= arrLen[last.args[1][2]])

\* C7: an array read indexed by the current loop's induction variable stays
\* in the loop; an invariant array read indexed by an enclosing loop's
\* induction variable is hoisted if and only if that variable's recorded upper
\* bound is at most the array's length or no block visited so far in the loop
\* was control-dependent.
ArrayGetHoistedByOuterBounds ==
    /\ ArrayGetByInductionVariable(last.current) => ~last.hoisted
    /\ ArrayGetByInductionVariable(last.outer) /\ LastInvariant =>
          (last.hoisted <=>
              \/ last.outer[last.args[2][2]][2] <= arrLen[last.args[1][2]]
              \/ ~last.controlDependent)

\* C7 witness: in a control-dependent block, an array read indexed by an
\* enclosing loop's induction variable whose upper bound equals the array's
\* length was hoisted
ArrayGetHoistedAtLength ==
    /\ ArrayGetByInductionVariable(last.outer) /\ last.controlDependent
    /\ last.outer[last.args[2][2]][2] = arrLen[last.args[1][2]]
    /\ last.hoisted

\* a loop of one body block with constant bounds lower < upper whose body
\* asserts on invariant values: every instruction before the increment reads
\* constants, values defined outside the loop, or earlier results of the body
AssertingSimpleLoop ==
    /\ Len(prog.loops) = 1
    /\ LET loop == prog.loops[1]
           body == loop.backEdge
           instrs == prog.blocks[body].instrs
       IN /\ LoopBlocks(prog, loop) = {loop.header, body}
          /\ InputBounds(loop) # <<>>
          /\ InputBounds(loop)[1] < InputBounds(loop)[2]
          /\ \E i \in 1..(Len(instrs) - 1) : instrs[i].op = "constrain"
          /\ \A i \in 1..(Len(instrs) - 1) :
                /\ instrs[i].op \in {"constrain", "mul", "add", "sub", "eq", "lt"}
                /\ \A k \in DOMAIN instrs[i].args :
                      \/ IsConst(instrs[i].args[k])
                      \/ instrs[i].args[k] \notin
                            ValuesDefinedIn(prog.blocks, LoopBlocks(prog, loop))
                      \/ \E j \in 1..(i - 1) : Val(instrs[j].res) = instrs[i].args[k]

Ids(instrs) == [i \in DOMAIN instrs |-> instrs[i].id]

SubFromInductionVariable ==
    /\ Stepped /\ last.op0 = "sub"
    /\ InMap(last.args[1], last.current) /\ IsConst(last.args[2])

LastLower == last.current[last.args[1][2]][1]
LastUpper == last.current[last.args[1][2]][2]

\* C9: such a subtraction is made unchecked exactly when the lower bound
\* minus the constant is a value of the operand type.
SubRewrittenIffNoUnderflow ==
    SubFromInductionVariable =>
        (last.op1 = "usub" <=>
            InRange(prog.typ, Num(LastLower, prog.typ) - Num(last.args[2][2], prog.typ)))

\* C9 witness: with bounds 1..4, v - 1 was made unchecked
SubOneRewritten ==
    /\ SubFromInductionVariable /\ LastLower = 1 /\ LastUpper = 4
    /\ last.args[2][2] = 1 /\ last.op1 = "usub"

\* C10: a checked operation on the current loop's induction variable and a
\* constant that the pass made unchecked cannot overflow or underflow for any
\* value the induction variable takes.
StrengtheningSound ==
    /\ Stepped /\ last.op0 \in CheckedOps /\ last.op1 = into_unchecked(last.op0)
    => LET ivLeft == InMap(last.args[1], last.current)
           iv == IF ivLeft THEN last.args[1][2] ELSE last.args[2][2]
           c == Num(IF ivLeft THEN last.args[2][2] ELSE last.args[1][2], prog.typ)
           lo == Num(last.current[iv][1], prog.typ)
           up == Num(last.current[iv][2], prog.typ)
       IN \A x \in lo..up :
             InRange(prog.typ, IF ivLeft THEN MathResult(last.op0, x, c)
                               ELSE MathResult(last.op0, c, x))

\* ids of the instructions of a function whose operator is unchecked
UncheckedIds(blks) == {i.id : i \in {j \in AllInstrs(blks) : is_unchecked(j.op)}}

\* C11: an operator that is already unchecked is never touched, and in a run
\* of the pass on its own output the operator of no binary instruction changes.
StrengtheningIdempotent ==
    /\ Stepped /\ is_unchecked(last.op0) => last.op1 = last.op0
    /\ Stepped /\ run = 2 /\ last.op0 \in BinaryOps => last.op1 = last.op0
    /\ Done /\ run = 2 =>
          \A i \in AllInstrs(blocks) : i.op \in BinaryOps =>
              \E j \in AllInstrs(prog.blocks) : j.id = i.id /\ j.op = i.op

\* C11 witness: the second run has visited an instruction that the first run
\* made unchecked (the instructions of the loop bodies have ids from 20 on)
RewrittenVisitedAgain ==
    /\ run = 2 /\ Stepped /\ last.id >= 20
    /\ last.op0 \in UncheckedOps

\* the block of a function that holds the instruction with this id (-1: none)
BlockOf(blks, id) ==
    IF \E b \in DOMAIN blks : \E i \in DOMAIN blks[b].instrs : blks[b].instrs[i].id = id
    THEN CHOOSE b \in DOMAIN blks : \E i \in DOMAIN blks[b].instrs : blks[b].instrs[i].id = id
    ELSE 0 - 1

RECURSIVE InvariantPositions(_, _, _)
\* the positions up to n of the computations and assertions of a block that
\* read only constants, values outside `defs` and earlier such results
InvariantPositions(instrs, defs, n) ==
    IF n = 0 THEN {}
    ELSE LET S == InvariantPositions(instrs, defs, n - 1)
         IN IF /\ instrs[n].op \in BinaryOps \cup {"constrain"}
               /\ \A k \in DOMAIN instrs[n].args :
                     \/ IsConst(instrs[n].args[k])
                     \/ instrs[n].args[k] \notin defs
                     \/ \E j \in S : Val(instrs[j].res) = instrs[n].args[k]
            THEN S \cup {n} ELSE S

\* a doubly nested loop whose inner loop is its header and one body block and
\* is not entered under a branch of the outer loop's body
StraightNested ==
    /\ Len(prog.loops) = 2
    /\ \A b \in PreHeaderCandidates(prog, prog.loops[1]) : ~UnderBranch(prog.loops[2], b)
    /\ LoopBlocks(prog, prog.loops[1]) \subseteq LoopBlocks(prog, prog.loops[2])
    /\ LoopBlocks(prog, prog.loops[1]) # LoopBlocks(prog, prog.loops[2])
    /\ LoopBlocks(prog, prog.loops[1]) =
           {prog.loops[1].header, prog.loops[1].backEdge}
    /\ \A i \in 1..2 : Cardinality(PreHeaderCandidates(prog, prog.loops[i])) = 1

\* the instructions of the inner body whose operands are defined outside both loops
InnerInvariants ==
    LET instrs == prog.blocks[prog.loops[1].backEdge].instrs
    IN {instrs[n] : n \in InvariantPositions(instrs,
                              ValuesDefinedIn(prog.blocks, LoopBlocks(prog, prog.loops[2])),
                              Len(instrs))}

OuterPreHeader == CHOOSE b \in PreHeaderCandidates(prog, prog.loops[2]) : TRUE

OuterRuns ==
    /\ InputBounds(prog.loops[2]) # <<>>
    /\ InputBounds(prog.loops[2])[1] < InputBounds(prog.loops[2])[2]

Entries(i) == Preds(prog, prog.loops[i].header) \ LoopBlocks(prog, prog.loops[i])

\* the loops that are not entered from exactly one block
SkippedLoops == {i \in 1..Len(prog.loops) : Cardinality(Entries(i)) # 1}

\* the instructions of a block as (instruction, operator) pairs, in order
Shape(blks, b) == [i \in DOMAIN blks[b].instrs |-> <<blks[b].instrs[i].id, blks[b].instrs[i].op>>]

\* the blocks of a skipped loop that are in no loop with a pre-header
OnlySkipped(i) ==
    LoopBlocks(prog, prog.loops[i]) \
        UNION {LoopBlocks(prog, prog.loops[j]) : j \in (1..Len(prog.loops)) \ SkippedLoops}

\* the instructions a loop of a header and one body block can give up to
\* its pre-header when its constant bounds show that the body runs
Movable(i) ==
    LET loop == prog.loops[i]
        instrs == prog.blocks[loop.backEdge].instrs
    IN IF /\ LoopBlocks(prog, loop) = {loop.header, loop.backEdge}
          /\ InputBounds(loop) # <<>>
          /\ InputBounds(loop)[1] < InputBounds(loop)[2]
       THEN {instrs[n] : n \in InvariantPositions(instrs,
                                  ValuesDefinedIn(prog.blocks, LoopBlocks(prog, loop)),
                                  Len(instrs))}
       ELSE {}

Definitions(blks) ==
    UNION {Range(blks[b].params) : b \in DOMAIN blks}
    \cup {i.res : i \in {j \in AllInstrs(blks) : j.res # 0}}

\* the operands of a function's instructions and terminators
Uses(blks) ==
    UNION {Range(i.args) : i \in AllInstrs(blks)}
    \cup UNION {Range(blks[b].term.args) : b \in DOMAIN blks}

\* the blocks in no loop
OutsideLoops ==
    DOMAIN prog.blocks \ UNION {LoopBlocks(prog, prog.loops[i]) : i \in 1..Len(prog.loops)}

\* C14: when the pass has finished, no operand of an instruction or of a
\* terminator is a value id that was replaced during re-insertion, and every
\* operand that is a value is defined in the function.
GlobalConsistency ==
    Done =>
        \A o \in Uses(blocks) :
            IsVal(o) => o[2] \notin DOMAIN values /\ o[2] \in Definitions(blocks)

\* C14 witness: a block outside every loop read a value that was replaced,
\* in an instruction or in its terminator, and now reads another id
ReplacedValueReadOutsideLoops ==
    /\ Done
    /\ \E b \in OutsideLoops :
          /\ \E o \in Range(prog.blocks[b].term.args) : IsVal(o) /\ o[2] \in DOMAIN values
          /\ blocks[b].term.args # prog.blocks[b].term.args
          /\ \E i \in Range(prog.blocks[b].instrs) :
                \E o \in Range(i.args) : IsVal(o) /\ o[2] \in DOMAIN values

\* the position in a block of the instruction with this id (0: none)
PositionOf(blks, b, id) ==
    IF \E n \in DOMAIN blks[b].instrs : blks[b].instrs[n].id = id
    THEN CHOOSE n \in DOMAIN blks[b].instrs : blks[b].instrs[n].id = id
    ELSE 0

\* the make_array instructions of the input that are in a loop, with their block
MadeInLoops ==
    UNION {{<<b, n>> : n \in {k \in DOMAIN prog.blocks[b].instrs :
                                    prog.blocks[b].instrs[k].op = "make_array"}} :
           b \in DOMAIN prog.blocks \ OutsideLoops}

\* the places of the result that hold an inc_rc of this value
IncRcOf(v) ==
    UNION {{<<b, n>> : n \in {k \in DOMAIN blocks[b].instrs :
                                    /\ blocks[b].instrs[k].op = "inc_rc"
                                    /\ blocks[b].instrs[k].args = <<v>>}} :
           b \in DOMAIN blocks}

\* the array a make_array of the input has become in the result
ArrayNow(id) ==
    LET b == BlockOf(blocks, id) IN Val(blocks[b].instrs[PositionOf(blocks, b, id)].res)

\* the instructions of the input block around position n that are still in
\* the block are, in the result, on the same side of position k
SamePlace(b, n, k) ==
    \A q \in DOMAIN prog.blocks[b].instrs :
        LET at == PositionOf(blocks, b, prog.blocks[b].instrs[q].id)
        IN at # 0 /\ q # n => (q < n <=> at < k)

\* C15: when the pass has finished, a make_array that left its loop block in
\* a Brillig function has exactly one inc_rc of its array, in the block it
\* left and between the instructions that surrounded it there; a make_array
\* that stayed has none, and in an ACIR function there is no inc_rc at all.
MakeArrayIncRc ==
    Done /\ run = 1 =>
        \A bn \in MadeInLoops :
            LET made == prog.blocks[bn[1]].instrs[bn[2]]
                places == IncRcOf(ArrayNow(made.id))
            IN IF prog.brillig /\ BlockOf(blocks, made.id) # bn[1]
               THEN /\ Cardinality(places) = 1
                    /\ \A place \in places :
                          place[1] = bn[1] /\ SamePlace(bn[1], bn[2], place[2])
               ELSE /\ places = {}
                    /\ ~prog.brillig => \A i \in AllInstrs(blocks) : i.op # "inc_rc"

\* C15 witness: in a Brillig function a make_array that stood between two
\* instructions that stay in the loop has left its block
MakeArrayHoistedFromBetween ==
    /\ Done /\ run = 1 /\ prog.brillig
    /\ \E bn \in MadeInLoops :
          /\ BlockOf(blocks, prog.blocks[bn[1]].instrs[bn[2]].id) # bn[1]
          /\ bn[2] > 1
          /\ PositionOf(blocks, bn[1], prog.blocks[bn[1]].instrs[1].id) # 0

\* where an instruction stood in the input: its block and its position
OrigBlock(id) == BlockOf(prog.blocks, id)
OrigPos(id) == PositionOf(prog.blocks, OrigBlock(id), id)

\* instruction i was visited before instruction j when they left their blocks
VisitedBefore(i, j) ==
    \/ OrigBlock(i.id) < OrigBlock(j.id)
    \/ OrigBlock(i.id) = OrigBlock(j.id) /\ OrigPos(i.id) < OrigPos(j.id)

\* C16: in every block, at every moment, the instructions that were in the
\* block from the start precede the instructions hoisted into it, the hoisted
\* ones stand in the order in which they were visited (loop blocks in
\* ascending order, instructions in block order), and an instruction that reads
\* the result of another instruction of the block stands after it.
PreHeaderOrdering ==
    \A b \in DOMAIN blocks : \A m, n \in DOMAIN blocks[b].instrs :
        LET i == blocks[b].instrs[m]
            j == blocks[b].instrs[n]
        IN /\ /\ m < n
              /\ OrigBlock(i.id) # 0 - 1 /\ OrigBlock(j.id) # 0 - 1
              => /\ OrigBlock(j.id) = b => OrigBlock(i.id) = b
                 /\ OrigBlock(i.id) # b /\ OrigBlock(j.id) # b => VisitedBefore(i, j)
                 /\ OrigBlock(i.id) = b /\ OrigBlock(j.id) = b => VisitedBefore(i, j)
           /\ /\ i.res # 0
              /\ \E k \in DOMAIN j.args : resolve(values, j.args[k]) = Val(i.res)
              => m < n

\* C16 witness: a pre-header holds an instruction of its own, then two
\* hoisted instructions of which the second reads the first
HoistedChainAfterExisting ==
    /\ Done
    /\ \E b \in DOMAIN blocks : \E k, m, n \in DOMAIN blocks[b].instrs :
          /\ k < m /\ m < n
          /\ OrigBlock(blocks[b].instrs[k].id) = b
          /\ OrigBlock(blocks[b].instrs[m].id) \notin {b, 0 - 1}
          /\ OrigBlock(blocks[b].instrs[n].id) \notin {b, 0 - 1}
          /\ Val(blocks[b].instrs[m].res) \in Range(blocks[b].instrs[n].args)

\* a loop has just been started: no block of it was visited yet
JustStarted ==
    /\ pc = "block" /\ curLoop # 0
    /\ Len(blockQueue) = Cardinality(LoopBlocks(prog, prog.loops[curLoop]))

\* the loops processed before loop j that have a block under a branch
EarlierBranching(j) ==
    {i \in (j + 1)..Len(prog.loops) :
        /\ Cardinality(Entries(i)) = 1
        /\ \E b \in LoopBlocks(prog, prog.loops[i]) : UnderBranch(prog.loops[i], b)}

\* the invariant instructions of the one body block of a loop without
\* branches: computations, and assertions if the constant bounds show that
\* the body runs
Hoistable(j) ==
    LET loop == prog.loops[j]
        instrs == prog.blocks[loop.backEdge].instrs
        runs == InputBounds(loop) # <<>> /\ InputBounds(loop)[1] < InputBounds(loop)[2]
    IN IF LoopBlocks(prog, loop) = {loop.header, loop.backEdge}
       THEN {i \in {instrs[n] : n \in InvariantPositions(instrs,
                                    ValuesDefinedIn(prog.blocks, LoopBlocks(prog, loop)),
                                    Len(instrs))} :
                i.op # "constrain" \/ runs}
       ELSE {}

\* C17: when a loop has just been started, defined_in_loop holds only values
\* of that loop, loop_invariants is empty, current_induction_variables holds at
\* most the loop's own induction variable and the control-dependence flag is
\* false; and when the pass has finished, a loop without branches that was
\* processed after a loop with a block under a branch has given up its
\* invariant instructions.
PerLoopReset ==
    /\ JustStarted =>
          /\ defined_in_loop = ValuesDefinedIn(blocks, LoopBlocks(prog, prog.loops[curLoop]))
          /\ loop_invariants = {}
          /\ DOMAIN current_induction_variables \subseteq
                 {resolve(values, get_induction_variable(blocks, prog.loops[curLoop].header))[2]}
          /\ ~current_block_control_dependent
    /\ Done /\ run = 1 =>
          \A j \in 1..Len(prog.loops) :
              EarlierBranching(j) # {} /\ Cardinality(Entries(j)) = 1 =>
                  \A ins \in Hoistable(j) :
                      BlockOf(blocks, ins.id) \notin LoopBlocks(prog, prog.loops[j])

\* C17 witness: the second of two loops in sequence gave its assertion to
\* its pre-header after the first loop had a block under a branch
HoistedAfterBranchingLoop ==
    /\ Done /\ run = 1
    /\ \E j \in 1..Len(prog.loops) :
          /\ EarlierBranching(j) # {}
          /\ \A i \in EarlierBranching(j) :
                LoopBlocks(prog, prog.loops[i]) \cap LoopBlocks(prog, prog.loops[j]) = {}
          /\ \E ins \in Hoistable(j) :
                ins.op = "constrain" /\ BlockOf(blocks, ins.id) \in Entries(j)

\* the loops strictly inside loop i, and the largest of them
NestedIn(i) ==
    {j \in 1..Len(prog.loops) :
        /\ LoopBlocks(prog, prog.loops[j]) \subseteq LoopBlocks(prog, prog.loops[i])
        /\ LoopBlocks(prog, prog.loops[j]) # LoopBlocks(prog, prog.loops[i])}
DirectlyInside(i) ==
    CHOOSE j \in NestedIn(i) :
        \A k \in NestedIn(i) :
            LoopBlocks(prog, prog.loops[k]) \subseteq LoopBlocks(prog, prog.loops[j])

\* a nest: every loop has one entry, the loops lie in one another and every
\* loop but the innermost holds nothing but the next loop, its pre-header and
\* its latch
StraightNest ==
    /\ Len(prog.loops) >= 2
    /\ \A i \in 1..Len(prog.loops) : Cardinality(Entries(i)) = 1
    /\ \A i \in 1..Len(prog.loops) :
          IF NestedIn(i) = {}
          THEN LoopBlocks(prog, prog.loops[i]) = {prog.loops[i].header, prog.loops[i].backEdge}
          ELSE LoopBlocks(prog, prog.loops[i]) =
                   LoopBlocks(prog, prog.loops[DirectlyInside(i)])
                   \cup Entries(DirectlyInside(i))
                   \cup {prog.loops[i].header, prog.loops[i].backEdge}

InnermostBody ==
    prog.loops[CHOOSE i \in 1..Len(prog.loops) : NestedIn(i) = {}].backEdge

\* the reads, in the innermost body, of an array made outside the loops at the
\* induction variable of loop i, whose constant upper bound is within the length
ReadsAt(i) ==
    {r \in Range(prog.blocks[InnermostBody].instrs) :
        /\ r.op = "array_get"
        /\ NestedIn(i) # {}
        /\ r.args[2] = get_induction_variable(prog.blocks, prog.loops[i].header)
        /\ IsVal(r.args[1]) /\ r.args[1][2] \in DOMAIN ArrayLengths(prog.blocks)
        /\ InputBounds(prog.loops[i]) # <<>>
        /\ InputBounds(prog.loops[i])[2] <= ArrayLengths(prog.blocks)[r.args[1][2]]}

\* the assertions of the innermost body on the result of a read
AssertionsOn(r) ==
    {c \in Range(prog.blocks[InnermostBody].instrs) :
        c.op = "constrain" /\ c.args[1] = Val(r.res)}

AllConstantBounds == \A i \in 1..Len(prog.loops) : InputBounds(prog.loops[i]) # <<>>

AllLoopsRun ==
    \A i \in 1..Len(prog.loops) :
        /\ InputBounds(prog.loops[i]) # <<>>
        /\ InputBounds(prog.loops[i])[1] < InputBounds(prog.loops[i])[2]

ConstLower(i) ==
    LET term == prog.blocks[CHOOSE b \in Entries(i) : TRUE].term
    IN IF Cardinality(Entries(i)) = 1 /\ Len(term.args) = 1 /\ IsConst(term.args[1])
       THEN <<term.args[1][2]>> ELSE <<>>

\* the divisions and remainders of a constant by the induction variable of
\* loop i, in a block under a branch of a loop j inside loop i: <<j, block, d>>
DivisionsBy(i) ==
    UNION {UNION {{<<j, b, d>> : d \in {e \in Range(prog.blocks[b].instrs) :
                                    /\ e.op \in {"div", "mod"}
                                    /\ IsConst(e.args[1])
                                    /\ e.args[2] = get_induction_variable(
                                                       prog.blocks, prog.loops[i].header)}} :
                  b \in {x \in LoopBlocks(prog, prog.loops[j]) :
                            UnderBranch(prog.loops[j], x)}} :
           j \in NestedIn(i)}

\* the constrain instructions of a block on the result of an instruction
ConstrainsOn(b, d) ==
    {c \in Range(prog.blocks[b].instrs) : c.op = "constrain" /\ c.args[1] = Val(d.res)}

\* C19 as stated: when the pass has finished, a division of a constant by an
\* enclosing loop's induction variable under a branch of an inner loop is in
\* the inner loop's pre-header if the enclosing loop's constant lower bound is
\* not zero and in its block if it is zero; the constrain on it is in its block.
DivisionHoistedIffLowerNonZero ==
    Done /\ run = 1 =>
        \A i \in 1..Len(prog.loops) : \A jbd \in DivisionsBy(i) :
            /\ ConstLower(i) # <<>> /\ ConstLower(i)[1] # 0
                  => BlockOf(blocks, jbd[3].id) \in Entries(jbd[1])
            /\ ConstLower(i) # <<>> /\ ConstLower(i)[1] = 0
                  => BlockOf(blocks, jbd[3].id) = jbd[2]
            /\ \A c \in ConstrainsOn(jbd[2], jbd[3]) : BlockOf(blocks, c.id) = jbd[2]

\* the loop has constant bounds 0 < lower < upper, read in its type
PositiveBounds(i) ==
    LET bounds == InputBounds(prog.loops[i])
        lo == IF prog.typ.signed THEN ToSigned(bounds[1], prog.typ.bits) ELSE bounds[1]
        up == IF prog.typ.signed THEN ToSigned(bounds[2], prog.typ.bits) ELSE bounds[2]
    IN bounds # <<>> /\ 0 < lo /\ lo < up

\* C19: when the pass has finished, a division of a constant by an enclosing
\* loop's induction variable under a branch of an inner loop is in the inner
\* loop's pre-header if the enclosing loop has constant bounds
\* 0 < lower < upper, and is in its block if the lower bound is zero or the
\* bounds are not both constants; the constrain on it is in its block.
DivisionHoistedAbovePositiveLower ==
    Done /\ run = 1 =>
        \A i \in 1..Len(prog.loops) : \A jbd \in DivisionsBy(i) :
            /\ PositiveBounds(i) => BlockOf(blocks, jbd[3].id) \in Entries(jbd[1])
            /\ \/ InputBounds(prog.loops[i]) = <<>>
               \/ InputBounds(prog.loops[i])[1] = 0
               => BlockOf(blocks, jbd[3].id) = jbd[2]
            /\ \A c \in ConstrainsOn(jbd[2], jbd[3]) : BlockOf(blocks, c.id) = jbd[2]

\* C19 witness: a division by an enclosing induction variable that starts at
\* a non-zero constant is in the inner pre-header and its constrain is not
DivisionInInnerPreHeader ==
    /\ Done /\ run = 1
    /\ \E i \in 1..Len(prog.loops) : \E jbd \in DivisionsBy(i) :
          /\ jbd[3].op = "div"
          /\ PositiveBounds(i)
          /\ BlockOf(blocks, jbd[3].id) \in Entries(jbd[1])
          /\ \E c \in ConstrainsOn(jbd[2], jbd[3]) : BlockOf(blocks, c.id) = jbd[2]

\* the instructions with side effects
SideEffects(blks) == {i \in AllInstrs(blks) : i.op \in EffectOps}

\* every instruction of every loop has side effects or reads a value defined
\* in its loop
OnlyEffectsAndVariant ==
    \A l \in 1..Len(prog.loops) : \A b \in LoopBlocks(prog, prog.loops[l]) :
        \A i \in Range(prog.blocks[b].instrs) :
            \/ i.op \in EffectOps
            \/ \E k \in DOMAIN i.args :
                  i.args[k] \in ValuesDefinedIn(prog.blocks, LoopBlocks(prog, prog.loops[l]))

SameTerminators ==
    \A b \in DOMAIN prog.blocks :
        blocks[b].term.kind = prog.blocks[b].term.kind
        /\ blocks[b].term.dests = prog.blocks[b].term.dests

\* C20 as stated: when the pass has finished, every instruction with side
\* effects is in the block it was in, and a function whose loops hold only
\* such instructions and instructions that read values of the loop has in
\* every block the instructions it had, with the same operators.
EffectsStayFunctionUnchanged ==
    Done /\ run = 1 =>
        /\ \A i \in SideEffects(prog.blocks) :
              BlockOf(blocks, i.id) = BlockOf(prog.blocks, i.id)
        /\ OnlyEffectsAndVariant =>
              /\ \A b \in DOMAIN prog.blocks : Shape(blocks, b) = Shape(prog.blocks, b)
              /\ SameTerminators

\* the operator is the one the instruction had, its unchecked form, or the
\* `eq` an unsigned `lt v, 1` is simplified to
SameOrSimplified(now, before) ==
    \/ now.op = before.op
    \/ before.op \in CheckedOps /\ now.op = into_unchecked(before.op)
    \/ before.op = "lt" /\ ~prog.typ.signed /\ before.args[2] = Const(1) /\ now.op = "eq"

\* C20: when the pass has finished, every instruction with side effects is in
\* the block it was in, and in a function whose loops hold only such
\* instructions and instructions that read values of the loop no instruction
\* has moved: every block holds the instructions it had, in their order,
\* except an unsigned `lt v, 0`, which is simplified away, and every operator
\* is the one it was or what the loop bounds or the insertion made of it.
EffectsStayNothingMoves ==
    Done /\ run = 1 =>
        /\ \A i \in SideEffects(prog.blocks) :
              BlockOf(blocks, i.id) = BlockOf(prog.blocks, i.id)
        /\ OnlyEffectsAndVariant =>
              /\ \A b \in DOMAIN prog.blocks :
                    /\ \A i \in Range(blocks[b].instrs) :
                          /\ OrigBlock(i.id) = b
                          /\ SameOrSimplified(i, prog.blocks[b].instrs[OrigPos(i.id)])
                    /\ \A m, n \in DOMAIN blocks[b].instrs :
                          m < n => OrigPos(blocks[b].instrs[m].id) < OrigPos(blocks[b].instrs[n].id)
                    /\ \A i \in Range(prog.blocks[b].instrs) :
                          \/ BlockOf(blocks, i.id) = b
                          \/ i.op = "lt" /\ ~prog.typ.signed /\ i.args[2] = Const(0)
              /\ SameTerminators

\* C20 witness: a loop that runs was visited and its load, store, call,
\* inc_rc and dec_rc of values defined before the loop are still in its body
OutsideEffectsStillInLoop ==
    /\ Done /\ run = 1 /\ OnlyEffectsAndVariant
    /\ \E l \in 1..Len(prog.loops) :
          /\ InputBounds(prog.loops[l]) # <<>>
          /\ InputBounds(prog.loops[l])[1] < InputBounds(prog.loops[l])[2]
          /\ \A op \in {"load", "store", "call", "inc_rc", "dec_rc"} :
                \E i \in Range(blocks[prog.loops[l].backEdge].instrs) :
                    /\ i.op = op
                    /\ \A k \in DOMAIN i.args :
                          i.args[k] \notin ValuesDefinedIn(blocks, LoopBlocks(prog, prog.loops[l]))

\* ------------------------------------------------------------------ C21
\* a step that belongs to the processing of one loop: it starts after
\* set_values_defined_in_loop and ends with the loop's last block
WithinLoop == pc \in {"block", "instr"}

OnPathFrom(header, b) ==
    {q \in BlockIds(prog) :
        /\ q \in FwdClosure(prog, 0 - 1, {header})
        /\ b \in FwdClosure(prog, header, {q})}

\* the recorded post-dominance frontier of b, empty if none is recorded
RecordedFrontier(b) ==
    IF b \in DOMAIN post_dom_frontiers THEN post_dom_frontiers[b] ELSE {}

VisitingBlock == pc = "block" /\ blockQueue # <<>>

\* C22: when a block is visited, the flag becomes true if and only if it was
\* already true or a block on a path from the loop header to the visited
\* block, other than the header and the visited block, is in the recorded
\* post-dominance frontier of the visited block.
FlagComputation ==
    [][VisitingBlock =>
        (current_block_control_dependent' <=>
            \/ current_block_control_dependent
            \/ (OnPathFrom(CurrentLoop.header, Head(blockQueue))
                    \ {CurrentLoop.header, Head(blockQueue)})
                \cap RecordedFrontier(Head(blockQueue)) # {})]_vars

\* in a loop with a second exit the body block, which depends on the header
\* alone, was visited with the flag still false, and the latch behind the
\* body's branch has raised it
FlagRaisedByBranchOnly ==
    /\ pc = "instr"
    /\ Stepped
    /\ last.loop = curLoop
    /\ last.block # curBlock
    /\ RecordedFrontier(last.block) = {CurrentLoop.header}
    /\ ~last.controlDependent
    /\ current_block_control_dependent
    /\ last.block \in RecordedFrontier(curBlock)

\* ------------------------------------------------------------------ C23
\* the loops that enclose loop i
EnclosingLoops(i) == {j \in 1..Len(prog.loops) : i \in NestedIn(j)}

\* the induction variable of loop j: the first parameter of its header
InductionVariableOf(j) == prog.blocks[prog.loops[j].header].params[1]

\* C23: while a loop L is analysed, every key of outer_induction_variables is
\* the induction variable of a loop that encloses L.
OuterBoundsOnlyOfEnclosing ==
    WithinLoop =>
        \A k \in DOMAIN outer_induction_variables :
            \E j \in EnclosingLoops(curLoop) : k = InductionVariableOf(j)

\* ------------------------------------------------------------------ C24
\* the last instruction as it was taken from its block, operands resolved
LastBefore == [op |-> last.op0, args |-> last.args]

TrackedIn(map) == \E k \in DOMAIN last.args : InMap(last.args[k], map)

\* C24: every instruction of every block of a processed loop is strengthened
\* before its hoisting decision, hoisted or not, in a control-dependent block
\* or not: a checked operation that the bounds of the loop being processed
\* prove safe is unchecked when it is classified; a rewritten operation reads
\* the induction variable of the loop being processed, and an operation on an
\* induction variable that only outer_induction_variables tracks is left
\* checked.
StrengtheningOrderAndScope ==
    Stepped =>
        /\ /\ last.op0 \in CheckedOps
           /\ can_evaluate_binary_op(prog.typ, LastBefore, last.current)
           => last.op1 = into_unchecked(last.op0)
        /\ last.op1 # last.op0 =>
                /\ last.op0 \in CheckedOps
                /\ last.op1 = into_unchecked(last.op0)
                /\ TrackedIn(last.current)
        /\ ~TrackedIn(last.current) /\ TrackedIn(last.outer) => last.op1 = last.op0

\* in a control-dependent block, a checked operation on the induction variable
\* of the loop being processed has been made unchecked and has stayed in its
\* block, and the next one, on the induction variable of an earlier loop, is
\* hoisted on the strength of outer_induction_variables and is still checked
OuterBoundsHoistButDoNotStrengthen ==
    /\ Stepped
    /\ last.op0 \in CheckedOps
    /\ last.op1 = last.op0
    /\ last.hoisted
    /\ last.controlDependent
    /\ can_evaluate_binary_op(prog.typ, LastBefore, last.outer)
    /\ \E i \in Range(blocks[last.block].instrs) :
            /\ i.op \in UncheckedOps
            /\ \E j \in Range(prog.blocks[last.block].instrs) :
                    j.id = i.id /\ j.op \in CheckedOps

\* ------------------------------------------------------------------ C25
BlockCount(i) == Cardinality(LoopBlocks(prog, prog.loops[i]))

\* no loop still in the worklist has more blocks than a loop taken before it
LargestFirst ==
    \A i \in 1..Len(prog.loops) :
        i \notin Range(yet_to_unroll) =>
            \A a \in Range(yet_to_unroll) : BlockCount(a) <= BlockCount(i)

\* when an instruction is classified in the pass of its loop, the constant
\* bounds of the enclosing loops in `which` are in outer_induction_variables
EnclosingBoundsRecorded(which) ==
    Stepped =>
        \A j \in EnclosingLoops(last.loop) \cap which :
            Cardinality(Entries(j)) = 1 /\ InputBounds(prog.loops[j]) # <<>> =>
                /\ InductionVariableOf(j) \in DOMAIN last.outer
                /\ last.outer[InductionVariableOf(j)] = InputBounds(prog.loops[j])

AllLoops == 1..Len(prog.loops)

\* C25 as stated: loops are taken largest block set first, and the constant
\* bounds of every enclosing loop with a pre-header are recorded in
\* outer_induction_variables before the first instruction of the nested loop
\* is classified in the nested loop's own pass.
ProcessingOrder == LargestFirst /\ EnclosingBoundsRecorded(AllLoops)

\* the loops whose header comparison the pass folds away: an unsigned `lt iv, 0`
FoldedHeader ==
    {j \in AllLoops : /\ ~prog.typ.signed
                      /\ InputBounds(prog.loops[j]) # <<>>
                      /\ InputBounds(prog.loops[j])[2] = 0}

\* C25: loops are taken largest block set first, and the constant bounds of
\* every enclosing loop with a pre-header, unless its upper bound is an
\* unsigned zero, are recorded before the first instruction of the nested loop
\* is classified in the nested loop's own pass; the bounds of an enclosing loop
\* with an unsigned upper bound of zero are not recorded.
ProcessingOrderUnlessFolded ==
    /\ LargestFirst
    /\ EnclosingBoundsRecorded(AllLoops \ FoldedHeader)
    /\ Stepped =>
        \A j \in EnclosingLoops(last.loop) \cap FoldedHeader :
            InductionVariableOf(j) \notin DOMAIN last.outer

\* an instruction of the innermost loop of a triple nest is classified in that
\* loop's own pass with the bounds of both enclosing loops recorded
InnermostSeesBothEnclosing ==
    /\ Stepped
    /\ Cardinality(EnclosingLoops(last.loop)) = 2
    /\ \A j \in EnclosingLoops(last.loop) :
        /\ InputBounds(prog.loops[j]) # <<>>
        /\ InductionVariableOf(j) \in DOMAIN last.outer

\* ------------------------------------------------------------------ C26
\* exactly one operand is a numeric constant and the other is tracked by `map`
ConstantAndTracked(ins, map) ==
    /\ Len(ins.args) = 2
    /\ \E k \in 1..2 : IsConst(ins.args[k]) /\ InMap(ins.args[3 - k], map)

\* the binary operation about to be classified, operands resolved
NextBinary == map_instruction(values, Head(instrQueue))

\* C26: can_evaluate_binary_op approves a binary operation only when exactly
\* one operand is a numeric constant and the other is an induction variable
\* tracked by the consulted map; any other operation is neither strengthened
\* to unchecked nor hoisted on the strength of the bounds.
BoundEvaluationShape ==
    /\ pc = "instr" /\ Head(instrQueue).op \in BinaryOps =>
        /\ can_evaluate_binary_op(prog.typ, NextBinary, current_induction_variables)
            => ConstantAndTracked(NextBinary, current_induction_variables)
        /\ can_evaluate_binary_op(prog.typ, NextBinary, outer_induction_variables)
            => ConstantAndTracked(NextBinary, outer_induction_variables)
    /\ Stepped /\ last.op1 # last.op0 => ConstantAndTracked(LastBefore, last.current)
    /\ /\ Stepped /\ last.hoisted /\ last.controlDependent
       /\ last.op1 \in BinaryOps
       /\ ~can_be_hoisted(prog.typ, prog.brillig, arrLen, LastIns, FALSE)
       => ConstantAndTracked(LastBefore, last.outer)

\* a checked operation on the induction variables of the outer and of the
\* inner loop, both with constant bounds that would admit it, was classified
\* in the inner loop's pass: it is still checked and still in its block
TwoInductionVariablesLeftAlone ==
    /\ Stepped
    /\ last.op0 \in CheckedOps
    /\ InMap(last.args[1], last.outer)
    /\ InMap(last.args[2], last.current)
    /\ eval_constant_binary_op(last.outer[last.args[1][2]][2],
                               last.current[last.args[2][2]][2],
                               last.op0, prog.typ) # <<>>
    /\ last.op1 = last.op0
    /\ ~last.hoisted

\* ------------------------------------------------------------------ C27
\* C27: at every point of the pass current_induction_variables holds at most
\* one entry, and when it holds one its key is the induction variable of the
\* loop being processed (between two loops: of the loop processed last).
SingleCurrentInductionVariable ==
    /\ Cardinality(DOMAIN current_induction_variables) <= 1
    /\ DOMAIN current_induction_variables # {} =>
        /\ curLoop # 0
        /\ DOMAIN current_induction_variables =
                {resolve(values, Val(InductionVariableOf(curLoop)))[2]}

\* an instruction of an inner loop is about to be classified in the inner
\* loop's pass: the only current entry is the inner induction variable, and
\* the enclosing loop's variable is tracked by outer_induction_variables alone
InnerVariableIsTheOnlyCurrent ==
    /\ pc = "instr"
    /\ EnclosingLoops(curLoop) # {}
    /\ DOMAIN current_induction_variables = {InductionVariableOf(curLoop)}
    /\ \E j \in EnclosingLoops(curLoop) :
            InductionVariableOf(j) \in DOMAIN outer_induction_variables

\* ------------------------------------------------------------------ C28
\* the places of the result that hold the instruction with this id
PlacesOf(id) ==
    UNION {{<<b, n>> : n \in {k \in DOMAIN blocks[b].instrs : blocks[b].instrs[k].id = id}} :
           b \in DOMAIN blocks}

\* the block an instruction of the input may be in after the pass: its own, or
\* the pre-header of a loop that contained it
AllowedBlocks(id) ==
    {OrigBlock(id)}
    \cup UNION {Entries(j) : j \in {l \in AllLoops : /\ Cardinality(Entries(l)) = 1
                                                      /\ OrigBlock(id) \in LoopBlocks(prog, prog.loops[l])}}

InputIds == {i.id : i \in AllInstrs(prog.blocks)}

\* every instruction in `which` is in exactly one block, an allowed one
PresentOnce(which) ==
    \A i \in which :
        /\ Cardinality(PlacesOf(i.id)) = 1
        /\ BlockOf(blocks, i.id) \in AllowedBlocks(i.id)

\* the instructions that stayed in their block are in the order they had
StayedInOrder ==
    \A b \in DOMAIN blocks : \A p, q \in DOMAIN blocks[b].instrs :
        /\ p < q
        /\ blocks[b].instrs[p].id \in InputIds /\ OrigBlock(blocks[b].instrs[p].id) = b
        /\ blocks[b].instrs[q].id \in InputIds /\ OrigBlock(blocks[b].instrs[q].id) = b
        => OrigPos(blocks[b].instrs[p].id) < OrigPos(blocks[b].instrs[q].id)

\* an instruction the input did not have is the inc_rc of a make_array that
\* has left its block
OnlyIncRcAdded ==
    \A i \in AllInstrs(blocks) :
        i.id \notin InputIds =>
            /\ i.op = "inc_rc"
            /\ \E made \in AllInstrs(prog.blocks) :
                /\ made.op = "make_array"
                /\ made.id = i.imm
                /\ BlockOf(blocks, made.id) # OrigBlock(made.id)
                /\ i.args = <<ArrayNow(made.id)>>

\* the blocks, their parameters and their edges are those of the input
SameGraph ==
    /\ DOMAIN blocks = DOMAIN prog.blocks
    /\ \A b \in DOMAIN prog.blocks : blocks[b].params = prog.blocks[b].params
    /\ SameTerminators

\* C28 as stated: after the pass every instruction of the input is in exactly
\* one block, its own or the pre-header of a loop that contained it; the
\* instructions that were not hoisted keep their order; only inc_rc of hoisted
\* make_array are added; blocks, parameters and edges are unchanged.
InstructionConservation ==
    Done /\ run = 1 =>
        /\ PresentOnce(AllInstrs(prog.blocks))
        /\ StayedInOrder
        /\ OnlyIncRcAdded
        /\ SameGraph

\* the instructions that insertion folds to a constant: an unsigned `lt v, 0`
\* in a block the pass re-inserts (every block reachable from the entry)
FoldedOnInsertion ==
    {i \in AllInstrs(prog.blocks) :
        i.op = "lt" /\ ~prog.typ.signed /\ i.args[2] = Const(0)}

\* C28: as above, except that an instruction which insertion folds to a
\* constant is in no block after the pass.
InstructionConservationUnlessFolded ==
    Done /\ run = 1 =>
        /\ PresentOnce(AllInstrs(prog.blocks) \ FoldedOnInsertion)
        /\ \A i \in FoldedOnInsertion : PlacesOf(i.id) = {}
        /\ StayedInOrder
        /\ OnlyIncRcAdded
        /\ SameGraph

\* the pass has finished on a function of which a make_array and another
\* instruction have left their loop, an inc_rc was added and an instruction
\* of the loop has stayed next to another one
HoistedAddedAndStayed ==
    /\ Done /\ run = 1
    /\ \E i \in AllInstrs(blocks) : i.id \notin InputIds
    /\ \E i \in AllInstrs(prog.blocks) :
        i.op # "make_array" /\ BlockOf(blocks, i.id) \notin {OrigBlock(i.id), 0 - 1}
    /\ \E b \in DOMAIN blocks \ OutsideLoops : \E p, q \in DOMAIN blocks[b].instrs :
        /\ p < q
        /\ blocks[b].instrs[p].id \in InputIds /\ OrigBlock(blocks[b].instrs[p].id) = b
        /\ blocks[b].instrs[q].id \in InputIds /\ OrigBlock(blocks[b].instrs[q].id) = b

\* ------------------------------------------------------------------ C29
\* the block parameters of the blocks of loop i
LoopParams(i) ==
    {Val(v) : v \in UNION {Range(prog.blocks[b].params) :
                            b \in LoopBlocks(prog, prog.loops[i])}}

\* C29: no instruction that reads a block parameter of a block of the loop
\* being processed is hoisted out of that loop; while the loop is processed
\* its block parameters are in defined_in_loop and not in loop_invariants.
BlockParametersNeverHoisted ==
    /\ Stepped /\ last.hoisted => Range(last.args) \cap LoopParams(last.loop) = {}
    /\ WithinLoop =>
        /\ LoopParams(curLoop) \subseteq defined_in_loop
        /\ LoopParams(curLoop) \cap loop_invariants = {}

\* an array read at the induction variable of the loop being processed, whose
\* constant bounds lie within the array, was classified in a block that is not
\* control-dependent and has stayed in the loop
ReadAtOwnVariableStays ==
    /\ Stepped
    /\ last.op1 = "array_get"
    /\ last.args[2] \in LoopParams(last.loop)
    /\ InMap(last.args[2], last.current)
    /\ last.current[last.args[2][2]][1] < last.current[last.args[2][2]][2]
    /\ last.current[last.args[2][2]][2] <= arrLen[last.args[1][2]]
    /\ ~last.controlDependent
    /\ ~last.hoisted
    /\ BlockOf(blocks, last.id) = last.block

\* ------------------------------------------------------------------ C30
\* the loop on top of the worklist is about to be skipped: it is not entered
\* from exactly one block
SkippingLoop ==
    /\ pc = "pop"
    /\ yet_to_unroll # <<>>
    /\ Cardinality(Entries(yet_to_unroll[Len(yet_to_unroll)])) # 1

\* the state of the engine: everything but the worklist
engine ==
    << blocks, values, nextId, arrLen, curLoop, defined_in_loop, loop_invariants,
       current_induction_variables, outer_induction_variables, current_pre_header,
       current_block_control_dependent >>

\* while a loop is processed, current_pre_header is set, and it is the one
\* block the loop is entered from
PreHeaderOfCurrentLoop ==
    WithinLoop =>
        /\ current_pre_header # 0 - 1
        /\ Entries(curLoop) = {current_pre_header}

\* the last instruction, if hoisted, is in the pre-header of the loop in whose
\* pass it was classified
HoistedIntoOwnPreHeader ==
    Stepped /\ last.hoisted => Entries(last.loop) = {BlockOf(blocks, last.id)}

\* C30: every hoisted instruction is pushed into the pre-header computed for
\* the loop being processed at that moment; pre_header() is not reached
\* while current_pre_header is None; skipping a loop without a pre-header
\* changes nothing of the engine's state.
HoistTargetValidity ==
    /\ [](PreHeaderOfCurrentLoop /\ HoistedIntoOwnPreHeader)
    /\ [][SkippingLoop => UNCHANGED engine]_vars

\* after a loop without a pre-header was skipped, a loop next to it is
\* processed and an instruction of it has gone to its own pre-header, which is
\* not the block current_pre_header held during the skip (none was set)
HoistedAfterSkippedLoop ==
    /\ Stepped /\ last.hoisted
    /\ \E i \in AllLoops :
        /\ Cardinality(Entries(i)) # 1
        /\ i \notin Range(yet_to_unroll)
        /\ \A j \in AllLoops \ {i} : j \in Range(yet_to_unroll) \cup {curLoop}
    /\ Entries(last.loop) = {BlockOf(blocks, last.id)}
    /\ BlockOf(blocks, last.id) # 0

====
